---- MODULE Spec2Model ----
(***************************************************************************)
(* Model of the launcher's service monitor (tools/launcher.py) and of the  *)
(* index statistics panel (tools/index_stats.py).                          *)
(*                                                                         *)
(* The GUI thread runs the handlers (_refresh, _on_status, _on_start,      *)
(* _on_stop, refresh, refresh_startup, _on_result, _on_fetch_failed,       *)
(* _on_log_result); each handler is one atomic step because Qt runs slots  *)
(* of the GUI thread one after the other from its event queue.  Worker     *)
(* threads (StatusCheckWorker, IndexStatsWorker, LogWorker) run their      *)
(* run() method step by step and post their signals to that event queue.   *)
(***************************************************************************)
EXTENDS Integers, Sequences, FiniteSets, TLC

\* ---- bounds of the model ----
MaxEvents == 1      \* signals waiting in the GUI thread's event queue
MaxTimers == 1      \* pending QTimer.singleShot re-polls

\* ---- vocabulary ----
Svc == {"index", "watcher"}

\* class ServiceState(Enum)
STOPPED == "STOPPED"
STARTING == "STARTING"
RUNNING == "RUNNING"
STOPPING == "STOPPING"
ServiceState == {STOPPED, STARTING, RUNNING, STOPPING}

\* the worker classes
CHECK == "check"    \* StatusCheckWorker
STATS == "stats"    \* IndexStatsWorker
LOG == "log"        \* LogWorker
Kinds == {CHECK, STATS, LOG}

\* what get_service_log can return: nothing, or some log text
LogTexts == {"", "text"}

\* the endpoints an IndexStatsWorker fetches, by the name run() gives the result
Endpoints == {"health", "stats", "status", "summary"}

\* no signal emitted
NoSignal == [kind |-> "-", r1 |-> "-", r2 |-> "-", r3 |-> "-", r4 |-> "-"]

VARIABLES
    row,        \* ServiceRow._state of _index_row and _watcher_row
    threads,    \* the worker threads whose run() has not returned
    events,     \* signals posted to the GUI thread, oldest first
    panel,      \* what IndexStatsPanel shows: "offline", "stats", "startup"
    timers,     \* pending QTimer.singleShot(_, self._refresh) calls
    issued,     \* external commands issued by the latest step
    last_op,    \* history: the operation the latest step ran
    last_stale, \* history: the latest step applied a result after a newer poll's
    keep_order, \* whether the history of the polls' start order is kept
    worker,     \* the worker whose run() is followed statement by statement
    call        \* the function that is applied on its own, its argument and result

vars == <<row, threads, events, panel, timers, issued, last_op, last_stale,
          keep_order, worker, call>>

\* ---- the GUI thread's view of the state, as one value ----
\* Handlers are functions from such a value to such a value, so that a
\* handler that calls another one is the composition of the two.
Gui ==
    [row |-> row, threads |-> threads, events |-> events, panel |-> panel,
     timers |-> timers, issued |-> <<>>, started |-> {}, last_stale |-> FALSE]

Apply(g) ==
    /\ row' = g.row
    /\ threads' = g.threads
    /\ events' = g.events
    /\ panel' = g.panel
    /\ timers' = g.timers
    /\ issued' = g.issued
    /\ last_stale' = g.last_stale

\* ---- polls and their start order (history, not program state) ----
\* A poll is outstanding from the start of its worker until its result has
\* been applied.  Where the start order is kept (OrderSpec), each outstanding
\* poll carries its rank in start order (1 = started first) and whether a
\* later-started poll's result has already been applied (stale); elsewhere
\* every rank is 0 and no poll is marked.
Pending(ths) == {t \in ths : t.pc # "done"}

NextRank(g) ==
    IF keep_order THEN Cardinality(Pending(g.threads)) + Len(g.events) + 1 ELSE 0

\* the bookkeeping of applying the result of the poll of rank r
Retire(x, r) ==
    [x EXCEPT !.rank = IF @ > r THEN @ - 1 ELSE @,
              !.stale = IF x.rank < r /\ x.rank > 0 THEN TRUE ELSE @]

\* ---- worker threads ----
\* Worker(...).start(), with the worker stored in the attribute that holds the
\* worker of this kind: isRunning() is asked of the new thread from now on
StartWorker(g, kind) ==
    LET t == [kind |-> kind, cur |-> TRUE, pc |-> "run",
              rank |-> NextRank(g), stale |-> FALSE]
    IN [g EXCEPT !.threads =
            {IF u.kind = kind THEN [u EXCEPT !.cur = FALSE] ELSE u : u \in g.threads}
            \cup {t},
                 !.started = @ \cup {kind}]

\* self._worker and self._worker.isRunning()
IsRunning(g, kind) == \E t \in g.threads : t.kind = kind /\ t.cur

B(b) == IF b THEN "true" ELSE "false"

\* ---- ServiceRow ----
\* ServiceRow.set_state
set_state(g, s, state) == [g EXCEPT !.row[s] = state]

\* ServiceRow._apply_state: the action button's text and whether it is enabled
_apply_state(state) ==
    CASE state = RUNNING -> [text |-> "Stop", enabled |-> TRUE]
      [] state = STOPPED -> [text |-> "Start", enabled |-> TRUE]
      [] state = STARTING -> [text |-> "Start", enabled |-> FALSE]
      [] state = STOPPING -> [text |-> "Stop", enabled |-> FALSE]

\* an opaque external command of service_manager (start_index_service, ...)
Issue(g, cmd) == [g EXCEPT !.issued = Append(@, cmd)]

\* ---- IndexStatsPanel ----
\* a refresh that lacks the isRunning() test
refresh_unguarded(g) == StartWorker(g, STATS)

\* IndexStatsPanel.refresh
refresh(g) == IF IsRunning(g, STATS) THEN g ELSE StartWorker(g, STATS)

\* IndexStatsPanel.refresh_startup
refresh_startup(g) == IF IsRunning(g, LOG) THEN g ELSE StartWorker(g, LOG)

\* IndexStatsPanel.set_offline
set_offline(g) == [g EXCEPT !.panel = "offline"]

\* an _on_fetch_failed that gives up instead of asking for the log
_on_fetch_failed_offline(g) == set_offline(g)

\* IndexStatsPanel._on_fetch_failed
_on_fetch_failed(g) == refresh_startup(g)

\* IndexStatsPanel._on_log_result
_on_log_result(g, screen_running, log_text) ==
    IF ~screen_running /\ log_text = ""
    THEN set_offline(g)
    ELSE [g EXCEPT !.panel = "startup"]

\* an _on_result that takes a snapshot as a sign that the service runs
_on_result_sets_running(g, data) ==
    set_state([g EXCEPT !.panel = "stats"], "index", RUNNING)

\* an _on_result that asks for the log as well
_on_result_polls_log(g, data) == refresh_startup([g EXCEPT !.panel = "stats"])

\* IndexStatsPanel._on_result
_on_result(g, data) == [g EXCEPT !.panel = "stats"]

\* ---- LauncherView ----
\* QTimer.singleShot(msec, self._refresh).  Pending shots beyond MaxTimers are
\* not counted: a shot only calls _refresh, which the periodic timer can call
\* at any moment as well.
singleShot(g) == [g EXCEPT !.timers = IF @ < MaxTimers THEN @ + 1 ELSE @]

\* a _refresh that lacks the isRunning() test
_refresh_unguarded(g) == StartWorker(g, CHECK)

\* a _refresh that never starts a status check again
_refresh_never_again(g) == g

\* LauncherView._refresh
_refresh(g) == IF IsRunning(g, CHECK) THEN g ELSE StartWorker(g, CHECK)

\* an _on_status that protects STARTING and STOPPING from a reachable result too
OnStatusIndex_guards_running(g, index_running) ==
    IF g.row["index"] \in {STARTING, STOPPING}
    THEN g
    ELSE IF index_running
         THEN refresh(set_state(g, "index", RUNNING))
         ELSE set_offline(set_state(g, "index", STOPPED))

\* an _on_status that protects RUNNING from an unreachable result too
OnStatusIndex_keeps_running(g, index_running) ==
    IF index_running
    THEN refresh(set_state(g, "index", RUNNING))
    ELSE IF g.row["index"] \notin {STARTING, STOPPING, RUNNING}
         THEN set_offline(set_state(g, "index", STOPPED))
         ELSE g

\* LauncherView._on_status, the part about the index service
OnStatusIndex(g, index_running) ==
    IF index_running
    THEN refresh(set_state(g, "index", RUNNING))
    ELSE IF g.row["index"] \notin {STARTING, STOPPING}
         THEN LET g1 == set_state(g, "index", STOPPED)
              IN IF g1.row["index"] = STARTING
                 THEN refresh_startup(g1)
                 ELSE set_offline(g1)
         ELSE g

\* an _on_status that writes the wrong member of ServiceState
OnStatusWatcher_wrong_state(g, watcher_running) ==
    IF watcher_running
    THEN set_state(g, "watcher", RUNNING)
    ELSE IF g.row["watcher"] \notin {STARTING, STOPPING}
         THEN set_state(g, "watcher", STOPPING)
         ELSE g

\* an _on_status that protects only STOPPING from an unreachable result
OnStatusWatcher_demotes_starting(g, watcher_running) ==
    IF watcher_running
    THEN set_state(g, "watcher", RUNNING)
    ELSE IF g.row["watcher"] # STOPPING
         THEN set_state(g, "watcher", STOPPED)
         ELSE g

\* an _on_status that asks the index row whether the watcher may be Stopped
OnStatusWatcher_follows_index(g, watcher_running) ==
    IF watcher_running
    THEN set_state(g, "watcher", RUNNING)
    ELSE IF g.row["index"] \notin {STARTING, STOPPING}
         THEN set_state(g, "watcher", STOPPED)
         ELSE g

\* LauncherView._on_status, the part about the watcher
OnStatusWatcher(g, watcher_running) ==
    IF watcher_running
    THEN set_state(g, "watcher", RUNNING)
    ELSE IF g.row["watcher"] \notin {STARTING, STOPPING}
         THEN set_state(g, "watcher", STOPPED)
         ELSE g

\* LauncherView._on_status
_on_status(g, index_running, watcher_running) ==
    OnStatusWatcher(OnStatusIndex(g, index_running), watcher_running)

\* LauncherView._on_start
_on_start(g, name) ==
    LET g1 == IF name = "index"
              THEN Issue(set_state(g, "index", STARTING), "start_index_service")
              ELSE IF name = "watcher"
                   THEN Issue(set_state(g, "watcher", STARTING), "start_watcher")
                   ELSE g
    IN singleShot(g1)

\* an _on_stop that gives up the status checks in flight
_on_stop_cancels_polls(g, name) ==
    LET g1 == IF name = "index"
              THEN Issue(set_state(g, "index", STOPPING), "stop_index_service")
              ELSE IF name = "watcher"
                   THEN Issue(set_state(g, "watcher", STOPPING), "stop_watcher")
                   ELSE g
    IN singleShot([g1 EXCEPT !.threads = {t \in @ : t.kind # CHECK}])

\* LauncherView._on_stop
_on_stop(g, name) ==
    LET g1 == IF name = "index"
              THEN Issue(set_state(g, "index", STOPPING), "stop_index_service")
              ELSE IF name = "watcher"
                   THEN Issue(set_state(g, "watcher", STOPPING), "stop_watcher")
                   ELSE g
    IN singleShot(g1)

\* ServiceRow._on_action; start_requested and stop_requested are connected
\* to _on_start and _on_stop within the GUI thread, so emit() calls them
_on_action(g, s) ==
    IF g.row[s] = RUNNING
    THEN _on_stop(g, s)
    ELSE IF g.row[s] = STOPPED
         THEN _on_start(g, s)
         ELSE g

\* a _start_all that lacks the tests of the rows' states
_start_all_unguarded(g) == _on_start(_on_start(g, "index"), "watcher")

\* LauncherView._start_all
_start_all(g) ==
    LET g1 == IF g.row["index"] = STOPPED THEN _on_start(g, "index") ELSE g
    IN IF g1.row["watcher"] = STOPPED THEN _on_start(g1, "watcher") ELSE g1

\* a _stop_all that lacks the tests of the rows' states
_stop_all_unguarded(g) == _on_stop(_on_stop(g, "index"), "watcher")

\* a _stop_all that stops every service that is not Stopped
_stop_all_unless_stopped(g) ==
    LET g1 == IF g.row["index"] # STOPPED THEN _on_stop(g, "index") ELSE g
    IN IF g1.row["watcher"] # STOPPED THEN _on_stop(g1, "watcher") ELSE g1

\* LauncherView._stop_all
_stop_all(g) ==
    LET g1 == IF g.row["index"] = RUNNING THEN _on_stop(g, "index") ELSE g
    IN IF g1.row["watcher"] = RUNNING THEN _on_stop(g1, "watcher") ELSE g1

\* no run() is followed fetch by fetch: every run() is one step
NoRun ==
    [pc |-> "-", would |-> [ep \in Endpoints |-> "-"],
     got |-> [ep \in Endpoints |-> "-"], fetched |-> <<>>, sig |-> NoSignal]

\* no function is applied: the program runs
NoCall == [fn |-> "-", arg |-> "", returned |-> FALSE, ret |-> [phase |-> "-", detail |-> ""]]

\* last_op of a step that is not a step of the GUI thread
NoOp == [op |-> "-", svc |-> "-", was |-> [s \in Svc |-> "-"], started |-> {}]

\* ---- the state after LauncherView.__init__ ----
\* Both rows are STOPPED, the panel has called set_offline(), no worker exists,
\* and the constructor has called self._refresh() once.
InitGui ==
    /\ LET g == _refresh([row |-> [s \in Svc |-> STOPPED], threads |-> {},
                          events |-> <<>>, panel |-> "offline", timers |-> 0,
                          issued |-> <<>>, started |-> {}, last_stale |-> FALSE])
       IN /\ row = g.row
          /\ threads = g.threads
          /\ events = g.events
          /\ panel = g.panel
          /\ timers = g.timers
          /\ issued = g.issued
          /\ last_stale = g.last_stale
    /\ last_op = NoOp
    /\ worker = NoRun

Init == keep_order = FALSE /\ InitGui /\ call = NoCall

InitOrder == keep_order = TRUE /\ InitGui /\ call = NoCall

\* ---- steps of the GUI thread ----
\* last_op names the handler the step ran, the kinds of worker it started and,
\* for _on_status, the rows' states before it
GuiStep(op, svc, g) ==
    /\ Apply(g)
    /\ keep_order' = keep_order
    /\ UNCHANGED <<worker, call>>
    /\ last_op' = [op |-> op, svc |-> svc,
                   was |-> IF op = "status" THEN row ELSE NoOp.was,
                   started |-> g.started]

\* self._timer.timeout, every 3000 ms
TimerTick ==
    /\ GuiStep("tick", "-", _refresh(Gui))

\* a QTimer.singleShot(_, self._refresh) of _on_start or _on_stop fires
SingleShot ==
    /\ timers > 0
    /\ GuiStep("single_shot", "-", _refresh([Gui EXCEPT !.timers = @ - 1]))

\* the user clicks the action button of a row (a disabled button cannot be clicked)
ClickAction(s) ==
    /\ _apply_state(row[s]).enabled
    /\ GuiStep("click", s, _on_action(Gui, s))

\* the user clicks "Start All"
StartAll ==
    /\ GuiStep("start_all", "-", _start_all(Gui))

\* the user clicks "Stop All"
StopAll ==
    /\ GuiStep("stop_all", "-", _stop_all(Gui))

\* the slot connected to the signal e, called with the signal's arguments
Dispatch(g, e) ==
    CASE e.kind = "status" -> _on_status(g, e.r1 = "true", e.r2 = "true")
      [] e.kind = "result" -> _on_result(g, e)
      [] e.kind = "failed" -> _on_fetch_failed(g)
      [] e.kind = "log" -> _on_log_result(g, e.r1 = "true", e.r2)

\* the GUI thread's event loop delivers the oldest posted signal
Deliver ==
    /\ events # <<>>
    /\ LET e == Head(events)
           g == [Gui EXCEPT
                   !.events = [i \in 1..(Len(events) - 1) |-> Retire(events[i + 1], e.rank)],
                   !.threads = {Retire(t, e.rank) : t \in threads},
                   !.last_stale = e.stale]
       IN GuiStep(e.kind, "-", Dispatch(g, e))

\* ---- steps of the worker threads ----
\* The services, their ports and processes are outside the program: what a
\* probe or a GET finds is an input of the step that makes it.  A run() makes
\* its probes and emits its signal in one step; returning is a step of its own,
\* because the thread is still running while its signal waits in the queue.
WorkerFrame ==
    /\ issued' = <<>>
    /\ last_stale' = FALSE
    /\ last_op' = NoOp
    /\ UNCHANGED <<row, panel, timers, keep_order>>

\* signal.emit(...): the call is posted to the GUI thread; run() has not returned
\* yet.  The queue keeps the signal's name and the arguments the slots branch
\* on (r1, r2); the bodies inside a snapshot decide no step of the monitor.
Emit(t, sig) ==
    /\ Len(events) < MaxEvents
    /\ events' = Append(events, [kind |-> sig.kind,
                                 r1 |-> IF sig.kind = "result" THEN "-" ELSE sig.r1,
                                 r2 |-> IF sig.kind = "result" THEN "-" ELSE sig.r2,
                                 rank |-> t.rank, stale |-> t.stale])
    /\ threads' = (threads \ {t}) \cup
                    {[kind |-> t.kind, cur |-> t.cur, pc |-> "done",
                      rank |-> 0, stale |-> FALSE]}
    /\ WorkerFrame

\* StatusCheckWorker.run
StatusCheckWorker_run(index_up, watcher_up) ==
    [kind |-> "status", r1 |-> B(index_up), r2 |-> B(watcher_up),
     r3 |-> "-", r4 |-> "-"]

\* what a GET of an endpoint can do: answer with a JSON object ("ok": one with
\* members, "{}": the empty one), or fail (connection refused, timeout, HTTP
\* error, invalid JSON)
FetchOutcomes == {"ok", "{}", "fail"}

\* a _fetch that returns None where it should raise
_fetch_swallows(o) == IF o = "fail" THEN "None" ELSE o

\* IndexStatsWorker._fetch: the decoded body, or an exception
_fetch(o) == IF o = "fail" THEN "raise" ELSE o

\* a _fetch_safe that lacks its try/except
_fetch_unsafe(o) == _fetch(o)

\* IndexStatsWorker._fetch_safe: None instead of an exception
_fetch_safe(o) == IF _fetch(o) = "raise" THEN "None" ELSE _fetch(o)

\* fetch_failed.emit()
Failed == [kind |-> "failed", r1 |-> "-", r2 |-> "-", r3 |-> "-", r4 |-> "-"]

\* a snapshot that is dropped as a whole when one of its fields is missing
Snapshot_all_or_nothing(health, stats, status, summary) ==
    IF "None" \in {stats, status, summary}
    THEN [kind |-> "result", r1 |-> health, r2 |-> "{}", r3 |-> "None", r4 |-> "None"]
    ELSE [kind |-> "result", r1 |-> health, r2 |-> stats, r3 |-> status, r4 |-> summary]

\* result_ready.emit({"health": health, "stats": stats or {}, "status": status,
\* "summary": summary}); None and the empty object are the falsy values here
Snapshot(health, stats, status, summary) ==
    [kind |-> "result", r1 |-> health,
     r2 |-> IF stats \in {"None", "{}"} THEN "{}" ELSE stats,
     r3 |-> status, r4 |-> summary]

\* IndexStatsWorker.run, given what each GET would do: an exception of the
\* health fetch goes to the except clause, which emits fetch_failed
IndexStatsWorker_run(o_health, o_stats, o_status, o_summary) ==
    LET health == _fetch(o_health)
    IN IF health = "raise"
       THEN Failed
       ELSE Snapshot(health, _fetch_safe(o_stats), _fetch_safe(o_status),
                     _fetch_safe(o_summary))

\* LogWorker.run, given what check_wsl_screen and get_service_log would return
LogWorker_run(screen, service_log) ==
    LET running == screen
        log == IF running THEN service_log ELSE ""
    IN [kind |-> "log", r1 |-> B(running), r2 |-> log, r3 |-> "-", r4 |-> "-"]

CheckRun(t) ==
    /\ t.kind = CHECK /\ t.pc = "run"
    /\ \E index_up \in BOOLEAN, watcher_up \in BOOLEAN :
         Emit(t, StatusCheckWorker_run(index_up, watcher_up))
    /\ UNCHANGED <<worker, call>>

StatsRun(t) ==
    /\ t.kind = STATS /\ t.pc = "run"
    /\ \E h \in FetchOutcomes, o2 \in FetchOutcomes, o3 \in FetchOutcomes,
          o4 \in FetchOutcomes :
         Emit(t, IndexStatsWorker_run(h, o2, o3, o4))
    /\ UNCHANGED <<worker, call>>

LogRun(t) ==
    /\ t.kind = LOG /\ t.pc = "run"
    /\ \E screen \in BOOLEAN, service_log \in LogTexts :
         Emit(t, LogWorker_run(screen, service_log))
    /\ UNCHANGED <<worker, call>>

\* run() returns: isRunning() is False from now on
Finish(t) ==
    /\ t.pc = "done"
    /\ threads' = threads \ {t}
    /\ events' = events
    /\ UNCHANGED <<worker, call>>
    /\ WorkerFrame

StatusCheckWorkerRuns == \E t \in threads : CheckRun(t)

IndexStatsWorkerRuns == \E t \in threads : StatsRun(t)

LogWorkerRuns == \E t \in threads : LogRun(t)

WorkerReturns == \E t \in threads : Finish(t)

WorkerStep ==
    \/ StatusCheckWorkerRuns
    \/ IndexStatsWorkerRuns
    \/ LogWorkerRuns
    \/ WorkerReturns

Next ==
    \/ TimerTick
    \/ SingleShot
    \/ \E s \in Svc : ClickAction(s)
    \/ StartAll
    \/ StopAll
    \/ Deliver
    \/ StatusCheckWorkerRuns
    \/ IndexStatsWorkerRuns
    \/ LogWorkerRuns
    \/ WorkerReturns

Spec == Init /\ [][Next]_vars

\* the same program, with the history of the polls' start order kept
OrderSpec == InitOrder /\ [][Next]_vars

\* The timer keeps firing, the event loop keeps delivering, threads keep running.
FairSpec ==
    /\ Spec
    /\ WF_vars(TimerTick)
    /\ WF_vars(SingleShot)
    /\ WF_vars(Deliver)
    /\ WF_vars(WorkerStep)

\* ---- IndexStatsWorker.run, statement by statement ----
\* worker.would is what a GET of each endpoint does while this run() lasts,
\* worker.got the value run() has assigned to each of its variables,
\* worker.fetched the endpoints requested so far, worker.sig the signal emitted.

\* a run() without its except clause: the exception ends it
Raise_unhandled(w) == [w EXCEPT !.pc = "done"]

\* an exception raised inside the try block of run() goes to its except clause
Raise(w) == [w EXCEPT !.pc = "except"]

\* the statement that follows the assignment of an endpoint's variable
NextPc(ep) ==
    CASE ep = "health" -> "stats"
      [] ep = "stats" -> "status"
      [] ep = "status" -> "summary"
      [] ep = "summary" -> "emit"

\* one assignment of run(): the endpoint is requested, and the call returns v
\* or raises
FetchInto(w, ep, v) ==
    LET w1 == [w EXCEPT !.fetched = Append(@, ep)]
    IN IF v = "raise"
       THEN Raise(w1)
       ELSE [w1 EXCEPT !.got[ep] = v, !.pc = NextPc(ep)]

\* health = self._fetch(f"{self._base_url}/health")
run_health(w) == FetchInto(w, "health", _fetch(w.would["health"]))

\* stats = self._fetch_safe(f"{self._base_url}/stats")
run_stats(w) == FetchInto(w, "stats", _fetch_safe(w.would["stats"]))

\* status = self._fetch_safe(f"{self._base_url}/status")
run_status(w) == FetchInto(w, "status", _fetch_safe(w.would["status"]))

\* summary = self._fetch_safe(f"{self._base_url}/summary")
run_summary(w) == FetchInto(w, "summary", _fetch_safe(w.would["summary"]))

\* a statement of run() that emits nothing
RunStep(w) ==
    /\ worker' = w
    /\ call' = call
    /\ UNCHANGED <<threads, events>>
    /\ WorkerFrame

FetchHealth ==
    /\ worker.pc = "health"
    /\ RunStep(run_health(worker))

FetchStats ==
    /\ worker.pc = "stats"
    /\ RunStep(run_stats(worker))

FetchStatus ==
    /\ worker.pc = "status"
    /\ RunStep(run_status(worker))

FetchSummary ==
    /\ worker.pc = "summary"
    /\ RunStep(run_summary(worker))

\* the thread that executes the run() that is followed
Followed == {t \in threads : t.kind = STATS /\ t.pc = "run"}

RunEmit(sig) ==
    /\ \E t \in Followed : Emit(t, sig)
    /\ worker' = [worker EXCEPT !.pc = "done", !.sig = sig]
    /\ call' = call

\* self.result_ready.emit({...})
EmitResult ==
    /\ worker.pc = "emit"
    /\ RunEmit(Snapshot(worker.got["health"], worker.got["stats"],
                         worker.got["status"], worker.got["summary"]))

\* except Exception: self.fetch_failed.emit()
EmitFailed ==
    /\ worker.pc = "except"
    /\ RunEmit(Failed)

\* The state in which a snapshot poll starts: _on_status has found the index
\* service reachable and has called refresh(); a LogWorker started by an
\* earlier fetch_failed may still be in flight.  Each endpoint answers or fails.
InitRun ==
    /\ keep_order = FALSE
    /\ LET g0 == [row |-> [s \in Svc |-> STOPPED], threads |-> {}, events |-> <<>>,
                  panel |-> "offline", timers |-> 0, issued |-> <<>>,
                  started |-> {}, last_stale |-> FALSE]
       IN \E log_in_flight \in BOOLEAN :
            LET g1 == IF log_in_flight THEN refresh_startup(g0) ELSE g0
                g == OnStatusIndex(g1, TRUE)
            IN /\ row = g.row
               /\ threads = g.threads
               /\ events = g.events
               /\ panel = g.panel
               /\ timers = g.timers
               /\ issued = g.issued
               /\ last_stale = g.last_stale
    /\ last_op = NoOp
    /\ call = NoCall
    /\ \E would \in [Endpoints -> FetchOutcomes] :
         worker = [NoRun EXCEPT !.pc = "health", !.would = would]

NextRun ==
    \/ FetchHealth
    \/ FetchStats
    \/ FetchStatus
    \/ FetchSummary
    \/ EmitResult
    \/ EmitFailed
    \/ Deliver
    \/ LogWorkerRuns
    \/ WorkerReturns

\* one snapshot poll, from refresh() to the handling of its signal
RunSpec == InitRun /\ [][NextRun]_vars

\* ---- str and re, as far as _parse_log_status uses them ----
\* A text is a TLA+ string: Len, SubSeq and \o act on its characters.
Char(s, i) == SubSeq(s, i, i)

Whitespace == {" ", "\t", "\n", "\r"}

DigitChars == "0123456789"

UpperCase == "ABCDEFGHIJKLMNOPQRSTUVWXYZ"

LowerCase == "abcdefghijklmnopqrstuvwxyz"

\* the least member of a set of indices, or 0 if there is none
First(S) == IF S = {} THEN 0 ELSE CHOOSE i \in S : \A j \in S : i <= j

\* the first index from i on at which character c stands in s, or 0
Find(s, c, i) == First({j \in i..Len(s) : Char(s, j) = c})

\* the characters of a string, as a set
CharsOf(s) == {Char(s, i) : i \in 1..Len(s)}

Digit == CharsOf(DigitChars)

Upper == CharsOf(UpperCase)

\* \w of re for the characters of the log
Word == Digit \cup Upper \cup CharsOf(LowerCase) \cup {"_"}

\* the value of a decimal digit
DigitValue == [c \in Digit |-> Find(DigitChars, c, 1) - 1]

\* the lower-case letter of an upper-case letter
ToLower == [c \in Upper |-> Char(LowerCase, Find(UpperCase, c, 1))]

IsSpace(c) == c \in Whitespace

IsDigit(c) == c \in Digit

IsWord(c) == c \in Word

\* str.lower, half by half
RECURSIVE lower(_)
lower(s) ==
    IF s = "" THEN ""
    ELSE IF Len(s) = 1
         THEN IF s \in Upper THEN ToLower[s] ELSE s
         ELSE LET h == Len(s) \div 2
              IN lower(SubSeq(s, 1, h)) \o lower(SubSeq(s, h + 1, Len(s)))

\* str.strip
RECURSIVE lstrip(_)
lstrip(s) ==
    IF s = "" THEN ""
    ELSE IF IsSpace(Head(s)) THEN lstrip(Tail(s))
    ELSE s

RECURSIVE rstrip(_)
rstrip(s) ==
    IF s = "" THEN ""
    ELSE IF IsSpace(Char(s, Len(s))) THEN rstrip(SubSeq(s, 1, Len(s) - 1))
    ELSE s

strip(s) == rstrip(lstrip(s))

\* str.splitlines, for texts whose line breaks are "\n"
RECURSIVE splitlines(_)
splitlines(s) ==
    IF s = "" THEN <<>>
    ELSE LET n == Find(s, "\n", 1)
         IN IF n = 0
            THEN <<s>>
            ELSE <<SubSeq(s, 1, n - 1)>> \o splitlines(SubSeq(s, n + 1, Len(s)))

\* needle in haystack
Contains(haystack, needle) ==
    \E i \in 1..(Len(haystack) - Len(needle) + 1) :
        SubSeq(haystack, i, i + Len(needle) - 1) = needle

\* s[i:].startswith(p)
StartsAt(s, i, p) ==
    /\ i + Len(p) - 1 <= Len(s)
    /\ SubSeq(s, i, i + Len(p) - 1) = p

\* the longest string of digits int() converts: longer ones raise ValueError
\* (sys.int_info.default_max_str_digits of CPython)
MaxStrDigits == 4300

\* what _parse_log_status is left with when int() raises
ValueError == [raise |-> "ValueError"]

\* int(s) raises
IntRaises(s) == Len(s) > MaxStrDigits

\* int(s) of a string of decimal digits that int() converts
RECURSIVE int(_)
int(s) ==
    IF s = "" THEN 0
    ELSE int(SubSeq(s, 1, Len(s) - 1)) * 10 + DigitValue[Char(s, Len(s))]

\* the index behind the longest run of digits (\d+ or \d*) that starts at i
DigitsEnd(s, i) ==
    IF i <= Len(s) /\ IsDigit(Char(s, i))
    THEN LET e == First({j \in i..Len(s) : ~IsDigit(Char(s, j))})
         IN IF e = 0 THEN Len(s) + 1 ELSE e
    ELSE i

\* the index behind the longest run of whitespace (\s+ or \s*) that starts at i
RECURSIVE SpaceEnd(_, _)
SpaceEnd(s, i) ==
    IF i <= Len(s) /\ IsSpace(Char(s, i)) THEN SpaceEnd(s, i + 1) ELSE i

\* (\d+)\s*/\s*(\d+) matched at index i: the two groups, or <<>>.  A digit is
\* neither whitespace nor "/", so each \d+ takes its whole run of digits.
ProgressAt(s, i) ==
    LET a == DigitsEnd(s, i)
        b == SpaceEnd(s, a)
        c == SpaceEnd(s, b + 1)
        d == DigitsEnd(s, c)
    IN IF a > i /\ b <= Len(s) /\ Char(s, b) = "/" /\ d > c
       THEN <<SubSeq(s, i, a - 1), SubSeq(s, c, d - 1)>>
       ELSE <<>>

\* a run of digits starts at index j
RunStart(s, j) ==
    /\ IsDigit(Char(s, j))
    /\ j = 1 \/ ~IsDigit(Char(s, j - 1))

\* _RE_PROGRESS.search(line): group(1) and group(2) of the leftmost match, or
\* <<>>.  A match inside a run of digits has a match at the start of the run,
\* so the leftmost match starts a run.
_RE_PROGRESS_search(line) ==
    LET i == First({j \in 1..Len(line) : RunStart(line, j) /\ ProgressAt(line, j) # <<>>})
    IN IF i = 0 THEN <<>> ELSE ProgressAt(line, i)

\* _RE_FILES_INDEXED.search(line) is not None; the pattern ignores case
_RE_FILES_INDEXED_search(line) ==
    LET s == lower(line)
    IN \E i \in 1..Len(s) :
         LET a == DigitsEnd(s, i)
             b == SpaceEnd(s, a)
             c == IF StartsAt(s, b, "files") THEN b + 5 ELSE b + 4
             d == SpaceEnd(s, c)
         IN /\ a > i
            /\ b > a
            /\ StartsAt(s, b, "file")
            /\ d > c
            /\ StartsAt(s, d, "indexed")

\* (?:\.\.\.|:|\s+\d) matched at index k
IndexingEndAt(s, k) ==
    \/ StartsAt(s, k, "...")
    \/ StartsAt(s, k, ":")
    \/ LET e == SpaceEnd(s, k)
       IN e > k /\ e <= Len(s) /\ IsDigit(Char(s, e))

\* _RE_INDEXING.search(line) is not None; the pattern ignores case
_RE_INDEXING_search(line) ==
    LET s == lower(line)
    IN \E i \in 1..Len(s), verb \in {"indexing", "scanning", "processing"} :
         LET a == i + Len(verb)
             b == SpaceEnd(s, a)
         IN /\ StartsAt(s, i, verb)
            /\ b > a
            /\ b <= Len(s)
            /\ IsWord(Char(s, b))
            /\ \E k \in (b + 1)..Len(s) :
                 /\ \A j \in (b + 1)..(k - 1) : IsWord(Char(s, j)) \/ IsSpace(Char(s, j))
                 /\ IndexingEndAt(s, k)

\* ---- _parse_log_status ----
DetailMax == 120    \* line[:120]

TailLines == 10     \* lines[-10:]

\* a detail that is the whole line
Truncate_whole_line(line) == line

\* line[:120]
Truncate(line) == IF Len(line) <= DetailMax THEN line ELSE SubSeq(line, 1, DetailMax)

\* [l.strip() for l in seq if l.strip()]
RECURSIVE StripNonEmpty(_)
StripNonEmpty(seq) ==
    IF seq = <<>> THEN <<>>
    ELSE LET l == strip(Head(seq))
         IN (IF l = "" THEN <<>> ELSE <<l>>) \o StripNonEmpty(Tail(seq))

\* a classifier that looks at every line of the text
LastLines_all(lines) == lines

\* lines[-10:]
LastLines(lines) ==
    IF Len(lines) <= TailLines THEN lines
    ELSE SubSeq(lines, Len(lines) - TailLines + 1, Len(lines))

\* an error test that does not lower the line first
IsErrorLine_case_sensitive(line) ==
    Contains(line, "error") \/ Contains(line, "fatal") \/ Contains(line, "enoent")

\* "error" in lower or "fatal" in lower or "enoent" in lower
IsErrorLine(line) ==
    LET lower_ == lower(line)
    IN Contains(lower_, "error") \/ Contains(lower_, "fatal") \/ Contains(lower_, "enoent")

\* a ready test that knows one of the three words only
IsReadyLine_listening_only(line) == Contains(lower(line), "listening")

\* "listening" in lower or "server started" in lower or "ready" in lower
IsReadyLine(line) ==
    LET lower_ == lower(line)
    IN \/ Contains(lower_, "listening")
       \/ Contains(lower_, "server started")
       \/ Contains(lower_, "ready")

\* a third loop that takes the current/total pair whatever the total is
ProgressTier_any_total(line) ==
    LET m_progress == _RE_PROGRESS_search(line)
    IN IF m_progress # <<>> /\ (IntRaises(m_progress[1]) \/ IntRaises(m_progress[2]))
       THEN <<ValueError>>
       ELSE IF m_progress # <<>>
       THEN <<[phase |-> "indexing", detail |-> Truncate(line),
               progress |-> int(m_progress[1]), total |-> int(m_progress[2])]>>
       ELSE IF _RE_FILES_INDEXED_search(line) \/ _RE_INDEXING_search(line)
            THEN <<[phase |-> "indexing", detail |-> Truncate(line)]>>
            ELSE <<>>

\* a third loop that knows the current/total pattern only
ProgressTier_pair_only(line) ==
    LET m_progress == _RE_PROGRESS_search(line)
    IN IF m_progress # <<>> /\ (IntRaises(m_progress[1]) \/ IntRaises(m_progress[2]))
       THEN <<ValueError>>
       ELSE IF m_progress # <<>> /\ int(m_progress[2]) > 0
       THEN <<[phase |-> "indexing", detail |-> Truncate(line),
               progress |-> int(m_progress[1]), total |-> int(m_progress[2])]>>
       ELSE <<>>

\* a third loop that leaves the phase as the result was created with
ProgressTier_phase_unset(line) ==
    LET m_progress == _RE_PROGRESS_search(line)
    IN IF m_progress # <<>> /\ (IntRaises(m_progress[1]) \/ IntRaises(m_progress[2]))
       THEN <<ValueError>>
       ELSE IF m_progress # <<>> /\ int(m_progress[2]) > 0
       THEN <<[phase |-> "starting", detail |-> Truncate(line),
               progress |-> int(m_progress[1]), total |-> int(m_progress[2])]>>
       ELSE IF _RE_FILES_INDEXED_search(line) \/ _RE_INDEXING_search(line)
            THEN <<[phase |-> "indexing", detail |-> Truncate(line)]>>
            ELSE <<>>

\* the body of the third loop for one line: <<the result it returns>>,
\* <<ValueError>> when int() of a group raises, or <<>> when the loop goes on
\* to the next line
ProgressTier(line) ==
    LET m_progress == _RE_PROGRESS_search(line)
    IN IF m_progress # <<>> /\ (IntRaises(m_progress[1]) \/ IntRaises(m_progress[2]))
       THEN <<ValueError>>
       ELSE IF m_progress # <<>> /\ int(m_progress[2]) > 0
       THEN <<[phase |-> "indexing", detail |-> Truncate(line),
               progress |-> int(m_progress[1]), total |-> int(m_progress[2])]>>
       ELSE IF _RE_FILES_INDEXED_search(line)
            THEN <<[phase |-> "indexing", detail |-> Truncate(line)]>>
            ELSE IF _RE_INDEXING_search(line)
                 THEN <<[phase |-> "indexing", detail |-> Truncate(line)]>>
                 ELSE <<>>

\* for line in reversed(last_lines): the index of the first line the loop
\* stops at, which is the last index in S; 0 if it stops at none
FirstReversed(S) == IF S = {} THEN 0 ELSE CHOOSE i \in S : \A j \in S : j <= i

\* if not lines: return {"phase": "starting", "detail": "Waiting for output..."}
NoOutput == [phase |-> "starting", detail |-> "Waiting for output..."]

\* a fallback that shows the oldest of the last lines
Fallback_oldest_line(last_lines) ==
    [phase |-> "starting",
     detail |-> IF last_lines # <<>> THEN Truncate(last_lines[1]) ELSE "Starting..."]

\* result["detail"] = last_lines[-1][:120] if last_lines else "Starting...",
\* with the phase "starting" the result was created with
Fallback(last_lines) ==
    [phase |-> "starting",
     detail |-> IF last_lines # <<>>
                THEN Truncate(last_lines[Len(last_lines)])
                ELSE "Starting..."]

\* a classifier whose third tier looks for a current/total line among all the
\* last lines before it looks for a line of the other two patterns
_parse_log_status_pair_first(log_text) ==
    LET lines == StripNonEmpty(splitlines(strip(log_text)))
    IN IF lines = <<>>
       THEN NoOutput
       ELSE
         LET last_lines == LastLines(lines)
             n == Len(last_lines)
             e == FirstReversed({i \in 1..n : IsErrorLine(last_lines[i])})
             r == FirstReversed({i \in 1..n : IsReadyLine(last_lines[i])})
             q == FirstReversed({i \in 1..n : ProgressTier_pair_only(last_lines[i]) # <<>>})
             p == FirstReversed({i \in 1..n : ProgressTier(last_lines[i]) # <<>>})
         IN IF e > 0 THEN [phase |-> "error", detail |-> Truncate(last_lines[e])]
            ELSE IF r > 0 THEN [phase |-> "ready", detail |-> Truncate(last_lines[r])]
            ELSE IF q > 0 THEN ProgressTier(last_lines[q])[1]
            ELSE IF p > 0 THEN ProgressTier(last_lines[p])[1]
            ELSE Fallback(last_lines)

\* _parse_log_status
_parse_log_status(log_text) ==
    LET lines == StripNonEmpty(splitlines(strip(log_text)))
    IN IF lines = <<>>
       THEN NoOutput
       ELSE
         LET last_lines == LastLines(lines)
             n == Len(last_lines)
             e == FirstReversed({i \in 1..n : IsErrorLine(last_lines[i])})
             r == FirstReversed({i \in 1..n : IsReadyLine(last_lines[i])})
             p == FirstReversed({i \in 1..n : ProgressTier(last_lines[i]) # <<>>})
         IN IF e > 0 THEN [phase |-> "error", detail |-> Truncate(last_lines[e])]
            ELSE IF r > 0 THEN [phase |-> "ready", detail |-> Truncate(last_lines[r])]
            ELSE IF p > 0 THEN ProgressTier(last_lines[p])[1]
            ELSE Fallback(last_lines)

\* ---- _parse_log_status applied to log texts ----
MaxLines == 2       \* lines of a log text that are drawn freely

\* lines a service log can hold
SampleLines ==
    {"ERROR: ENOENT no such file",
     "Listening on port 3847",
     "42/100 files indexed",
     "Scanning Source directory...",
     "Starting server...",
     "0/0 files indexed",
     "7 / 9 done",
     "12 files indexed",
     "retry 3/0",
     "-3/5",
     "  Server started\t",
     "",
     "GET /summary 200 in 3ms xxxxxxxxxxxxxxxxxxxxxxxxxxxxxxxxxxxxxxxxxxxxxxxxxxxxxxxxxxxxxxxxxxxxxxxxxxxxxxxxxxxxxxxxxxxxxxxxxxxxxxxxxxxxxxxxx fatal"}

\* the line a quiet service keeps writing
QuietLine == "waiting"

\* how many quiet lines follow the drawn lines
QuietCounts == {0, 9}

\* "\n".join(seq), with a line break behind the last line as in a log file
RECURSIVE JoinLines(_)
JoinLines(seq) ==
    IF seq = <<>> THEN "" ELSE Head(seq) \o "\n" \o JoinLines(Tail(seq))

\* what makes a line longer than a detail may be
LongTail ==
    " xxxxxxxxxxxxxxxxxxxxxxxxxxxxxxxxxxxxxxxxxxxxxxxxxxxxxxxxxxxxxxxxxxxxxxxxxxxxxxxxxxxxxxxxxxxxxxxxxxxxxxxxxxxxxxxxxxxxxxxxxxxxxxxxxxxxxxxxx"

\* the lines, or the lines with a long last one
Stretched(seq, long) ==
    IF long /\ seq # <<>>
    THEN [i \in 1..Len(seq) |-> IF i = Len(seq) THEN seq[i] \o LongTail ELSE seq[i]]
    ELSE seq

\* s repeated n times
RECURSIVE Repeat(_, _)
Repeat(s, n) ==
    IF n = 0 THEN ""
    ELSE LET h == Repeat(s, n \div 2)
         IN IF n % 2 = 1 THEN h \o h \o s ELSE h \o h

\* a progress line whose current count has one digit more than int() converts
HugeCountLine == Repeat("1", MaxStrDigits + 1) \o "/5"

LogSamples ==
    {JoinLines(Stretched(seq, long) \o [i \in 1..q |-> QuietLine]) :
        seq \in UNION {[1..n -> SampleLines] : n \in 0..MaxLines},
        q \in QuietCounts, long \in BOOLEAN}
    \cup {JoinLines(<<HugeCountLine>>)}

InitParse ==
    /\ keep_order = FALSE
    /\ InitGui
    /\ \E log_text \in LogSamples :
         call = [NoCall EXCEPT !.fn = "_parse_log_status", !.arg = log_text]

\* parsed = _parse_log_status(log_text)
ParseLog ==
    /\ call.fn = "_parse_log_status"
    /\ ~call.returned
    /\ call.ret = NoCall.ret
    /\ LET parsed == _parse_log_status(call.arg)
       IN call' = [call EXCEPT !.returned = (parsed # ValueError), !.ret = parsed]
    /\ UNCHANGED <<row, threads, events, panel, timers, issued, last_op,
                   last_stale, keep_order, worker>>

NextParse ==
    \/ ParseLog

\* _parse_log_status applied once to a log text
ParseSpec == InitParse /\ [][NextParse]_vars

\* ---- LogWorker.run, statement by statement, and _on_log_result ----
\* what subprocess.run does for a probe: the command exits with a return code
\* and an output, or the call raises TimeoutExpired or OSError
Exits(returncode, stdout) ==
    [raised |-> "-", returncode |-> returncode, stdout |-> stdout]

Raises(exception) == [raised |-> exception, returncode |-> -1, stdout |-> ""]

\* what the log file can hold when it is read
LogTails ==
    {"",
     "Starting server...\n",
     "Starting server...\n42/100 files indexed\n",
     "Starting server...\nListening on port 3847\n",
     "ERROR: ENOENT no such file\n"}

\* outcomes of the command of check_wsl_screen (screen -ls | grep -q)
ScreenOutcomes ==
    {Exits(0, ""), Exits(1, ""), Raises("TimeoutExpired"), Raises("OSError")}

\* outcomes of the command of get_service_log (tail -20 of the log file)
TailOutcomes ==
    {Exits(0, text) : text \in LogTails}
    \cup {Exits(1, ""), Raises("TimeoutExpired"), Raises("OSError")}

\* service_manager.check_wsl_screen
check_wsl_screen(o) == IF o.raised # "-" THEN FALSE ELSE o.returncode = 0

\* service_manager.get_service_log, on win32
get_service_log(o) ==
    IF o.raised # "-" THEN ""
    ELSE IF o.returncode = 0 THEN o.stdout ELSE ""

\* no statement of a LogWorker.run has been executed
NoLogRun(screen, tail) ==
    [pc |-> "screen", screen |-> screen, tail |-> tail, running |-> FALSE,
     log |-> "", read |-> FALSE, sig |-> NoSignal]

\* running = check_wsl_screen()
run_screen(w) == [w EXCEPT !.running = check_wsl_screen(w.screen), !.pc = "log"]

\* a run() that reads the log whatever the probe says
run_log_always(w) ==
    [w EXCEPT !.log = get_service_log(w.tail), !.read = TRUE, !.pc = "emit"]

\* log = get_service_log(lines=20) if running else ""
run_log(w) ==
    IF w.running
    THEN [w EXCEPT !.log = get_service_log(w.tail), !.read = TRUE, !.pc = "emit"]
    ELSE [w EXCEPT !.log = "", !.pc = "emit"]

\* the call of _parse_log_status that _on_log_result makes, if it makes one
_on_log_result_parsed(screen_running, log_text) ==
    IF ~screen_running /\ log_text = ""
    THEN NoCall
    ELSE IF ~screen_running
         THEN NoCall
         ELSE LET parsed == _parse_log_status(log_text)
              IN [fn |-> "_parse_log_status", arg |-> log_text,
                  returned |-> (parsed # ValueError), ret |-> parsed]

CheckScreen ==
    /\ worker.pc = "screen"
    /\ RunStep(run_screen(worker))

ReadLog ==
    /\ worker.pc = "log"
    /\ RunStep(run_log(worker))

\* self.result_ready.emit(running, log)
EmitLog ==
    /\ worker.pc = "emit"
    /\ LET sig == [kind |-> "log", r1 |-> B(worker.running), r2 |-> worker.log,
                   r3 |-> "-", r4 |-> "-"]
       IN /\ \E t \in {u \in threads : u.kind = LOG /\ u.pc = "run"} : Emit(t, sig)
          /\ worker' = [worker EXCEPT !.pc = "done", !.sig = sig]
    /\ call' = call

\* the event loop delivers result_ready of the LogWorker: _on_log_result, the
\* classification of the log text included
DeliverLog ==
    /\ events # <<>>
    /\ Head(events).kind = "log"
    /\ LET e == Head(events)
           g == [Gui EXCEPT
                   !.events = [i \in 1..(Len(events) - 1) |-> Retire(events[i + 1], e.rank)],
                   !.threads = {Retire(t, e.rank) : t \in threads},
                   !.last_stale = e.stale]
       IN /\ Apply(_on_log_result(g, e.r1 = "true", e.r2))
          /\ call' = _on_log_result_parsed(e.r1 = "true", e.r2)
    /\ last_op' = [NoOp EXCEPT !.op = "log"]
    /\ UNCHANGED <<keep_order, worker>>

\* The state in which a log-status poll starts: a snapshot poll has failed
\* and _on_fetch_failed has called refresh_startup(), whatever the panel shows
\* and whatever the state of the index service's row is.
InitLog ==
    /\ keep_order = FALSE
    /\ \E shows \in {"offline", "stats", "startup"}, state \in ServiceState :
         LET g == _on_fetch_failed(
                     [row |-> [s \in Svc |-> IF s = "index" THEN state ELSE STOPPED],
                      threads |-> {}, events |-> <<>>, panel |-> shows, timers |-> 0,
                      issued |-> <<>>, started |-> {}, last_stale |-> FALSE])
         IN /\ row = g.row
            /\ threads = g.threads
            /\ events = g.events
            /\ panel = g.panel
            /\ timers = g.timers
            /\ issued = g.issued
            /\ last_stale = g.last_stale
    /\ last_op = NoOp
    /\ call = NoCall
    /\ \E screen \in ScreenOutcomes, tail \in TailOutcomes :
         worker = NoLogRun(screen, tail)

NextLog ==
    \/ CheckScreen
    \/ ReadLog
    \/ EmitLog
    \/ DeliverLog
    \/ WorkerReturns

\* one log-status poll, from refresh_startup() to the handling of its signal
LogSpec == InitLog /\ [][NextLog]_vars

\* ---- InstallWorker.run, step by step ----
\* the indices of _INSTALL_STEP_LABELS
Steps == 0..7

\* What the function of a step does when it is called: it returns (True, msg),
\* returns (False, msg) or lets an exception escape.  The install functions of
\* service_manager return a pair and turn the failures of their command into
\* (False, msg); create_wsl_data_dirs, off Windows, creates the directories
\* with Path.mkdir outside any try and returns (True, msg) or raises OSError;
\* write_config returns None or raises.
StepOutcomes(index, win32) ==
    IF index = 4 /\ ~win32 THEN {"ok", "raise"}
    ELSE IF index = 5 THEN {"ok", "raise"}
    ELSE {"ok", "fail"}

\* self.step_started.emit(index, description)
step_started(index) == [sig |-> "step_started", index |-> index, ok |-> "-"]

\* self.step_completed.emit(index, ok, msg)
step_completed(index, ok) ==
    [sig |-> "step_completed", index |-> index, ok |-> IF ok THEN "true" ELSE "false"]

\* self.all_done.emit(all_ok)
all_done(ok) == [sig |-> "all_done", index |-> 8, ok |-> IF ok THEN "true" ELSE "false"]

\* InstallWorker.__init__ and the entry of run(): all_ok = True
NoInstallRun(skip_wsl_pull, skip_npm, win32, would) ==
    [pc |-> 0, skip_wsl_pull |-> skip_wsl_pull, skip_npm |-> skip_npm,
     win32 |-> win32, would |-> would, all_ok |-> TRUE, emitted |-> <<>>,
     ended |-> "-"]

\* a signal is emitted
Emits(w, signal) == [w EXCEPT !.emitted = Append(@, signal)]

\* the branch of a step that does not call its function:
\* step_started (if the branch emits it), step_completed(index, True, "Skipped ...")
SkipStep(w, index, announced) ==
    LET w1 == IF announced THEN Emits(w, step_started(index)) ELSE w
    IN [Emits(w1, step_completed(index, TRUE)) EXCEPT !.pc = index + 1]

\* the branch of a step that calls its function:
\* step_started, ok, msg = f(...), step_completed(index, ok, msg),
\* if not ok: all_ok = False.  An exception of f leaves run().
CallStep(w, index) ==
    LET w1 == Emits(w, step_started(index))
        ok == w.would[index] = "ok"
    IN IF w.would[index] = "raise"
       THEN [w1 EXCEPT !.ended = "raised"]
       ELSE [Emits(w1, step_completed(index, ok))
                EXCEPT !.pc = index + 1, !.all_ok = @ /\ ok]

\* the step runs the branch that skips it
Skips(w, index) ==
    \/ index = 0 /\ w.skip_npm
    \/ index = 1 /\ (w.skip_wsl_pull \/ ~w.win32)
    \/ index = 2 /\ ((w.skip_wsl_pull /\ w.skip_npm) \/ ~w.win32)

\* Step 0: npm install
run_step0(w) ==
    IF w.skip_npm THEN SkipStep(w, 0, TRUE) ELSE CallStep(w, 0)

\* Step 1: clone/update repo in WSL
run_step1(w) ==
    IF w.skip_wsl_pull THEN SkipStep(w, 1, TRUE)
    ELSE IF w.win32 THEN CallStep(w, 1)
    ELSE SkipStep(w, 1, FALSE)

\* Step 2: WSL npm install
run_step2(w) ==
    IF w.skip_wsl_pull /\ w.skip_npm THEN SkipStep(w, 2, TRUE)
    ELSE IF w.win32 THEN CallStep(w, 2)
    ELSE SkipStep(w, 2, FALSE)

\* Step 5: write config, in try ... except Exception
run_step5(w) ==
    LET w1 == Emits(w, step_started(5))
        ok == w.would[5] = "ok"
    IN [Emits(w1, step_completed(5, ok)) EXCEPT !.pc = 6, !.all_ok = @ /\ ok]

\* the statements of one step of run()
run_step(w) ==
    IF w.pc = 0 THEN run_step0(w)
    ELSE IF w.pc = 1 THEN run_step1(w)
    ELSE IF w.pc = 2 THEN run_step2(w)
    ELSE IF w.pc = 5 THEN run_step5(w)
    ELSE CallStep(w, w.pc)

\* run() executes its next step
InstallStep ==
    /\ worker.pc \in Steps
    /\ worker.ended = "-"
    /\ worker' = run_step(worker)
    /\ UNCHANGED <<row, threads, events, panel, timers, issued, last_op,
                   last_stale, keep_order, call>>

\* self.all_done.emit(all_ok), and run() returns
AllDone ==
    /\ worker.pc = 8
    /\ worker.ended = "-"
    /\ worker' = [Emits(worker, all_done(worker.all_ok)) EXCEPT !.ended = "returned"]
    /\ UNCHANGED <<row, threads, events, panel, timers, issued, last_op,
                   last_stale, keep_order, call>>

\* InstallView._start_install: a worker is made of the view's flags and
\* started; the launcher view does not exist yet
InitInstall ==
    /\ keep_order = FALSE
    /\ row = [s \in Svc |-> STOPPED]
    /\ threads = {}
    /\ events = <<>>
    /\ panel = "offline"
    /\ timers = 0
    /\ issued = <<>>
    /\ last_stale = FALSE
    /\ last_op = NoOp
    /\ call = NoCall
    /\ \E skip_wsl_pull \in BOOLEAN, skip_npm \in BOOLEAN, win32 \in BOOLEAN :
         \E would \in [Steps -> {"ok", "fail", "raise"}] :
            /\ \A index \in Steps : would[index] \in StepOutcomes(index, win32)
            /\ worker = NoInstallRun(skip_wsl_pull, skip_npm, win32, would)

NextInstall ==
    \/ InstallStep
    \/ AllDone

\* one run of the install worker
InstallSpec == InitInstall /\ [][NextInstall]_vars

\* ---- JSON values, as json.loads returns them ----
\* A value is a record of one field: the name of the field is the Python type
\* and its value what the value holds.  A dict holds its items as a sequence
\* of <<key, value>> in insertion order.
None == [NoneType |-> <<>>]

Bool(b) == [bool |-> b]

Num(n) == [int |-> n]

Str(s) == [str |-> s]

List(items) == [list |-> items]

Dict(items) == [dict |-> items]

\* type(x).__name__
TypeOf(x) == CHOOSE t \in DOMAIN x : TRUE

\* what a value holds
ValueOf(x) == x[TypeOf(x)]

Pair(key, value) == <<key, value>>

\* bool(x)
truth(x) ==
    CASE TypeOf(x) = "NoneType" -> FALSE
      [] TypeOf(x) = "bool" -> ValueOf(x)
      [] TypeOf(x) = "int" -> ValueOf(x) # 0
      [] TypeOf(x) = "str" -> ValueOf(x) # ""
      [] OTHER -> ValueOf(x) # <<>>

\* isinstance(x, dict), isinstance(x, list)
isinstance(x, type) == TypeOf(x) = type

\* key in d
HasKey(d, key) == \E i \in 1..Len(ValueOf(d)) : ValueOf(d)[i][1] = key

\* d.get(key, default)
get(d, key, default) ==
    IF HasKey(d, key)
    THEN ValueOf(d)[CHOOSE i \in 1..Len(ValueOf(d)) : ValueOf(d)[i][1] = key][2]
    ELSE default

\* str(n) of a natural number
RECURSIVE str(_)
str(n) ==
    IF n < 10 THEN SubSeq(DigitChars, n + 1, n + 1)
    ELSE str(n \div 10) \o SubSeq(DigitChars, (n % 10) + 1, (n % 10) + 1)

\* sep.join(parts)
RECURSIVE join(_, _)
join(sep, parts) ==
    IF parts = <<>> THEN ""
    ELSE IF Len(parts) = 1 THEN parts[1]
    ELSE parts[1] \o sep \o join(sep, Tail(parts))

\* ---- IndexStatsPanel._on_result: what the rows show ----
\* _fmt_count(n), for a count whose tenth is not a tie (n % 100 # 50 from
\* 1000 on, n % 100000 # 50000 from 1000000 on): n / 1000 rounded to one
\* decimal is then the nearest tenth
_fmt_count(n) ==
    IF n >= 1000000
    THEN LET tenths == (n + 50000) \div 100000
         IN str(tenths \div 10) \o "." \o str(tenths % 10) \o "M"
    ELSE IF n >= 1000
         THEN LET tenths == (n + 50) \div 100
              IN str(tenths \div 10) \o "." \o str(tenths % 10) \o "K"
         ELSE str(n)

\* _fmt_uptime(seconds)
_fmt_uptime(seconds) ==
    IF seconds < 60 THEN str(seconds) \o "s"
    ELSE IF seconds < 3600 THEN str(seconds \div 60) \o "m"
    ELSE str(seconds \div 3600) \o "h " \o str((seconds % 3600) \div 60) \o "m"

\* _LANG_LABELS.get(lang, lang)
_LANG_LABELS_get(lang) ==
    CASE lang = "angelscript" -> "AS"
      [] lang = "cpp" -> "C++"
      [] lang = "config" -> "Config"
      [] lang = "asset" -> "Assets"
      [] lang = "content" -> "Content"
      [] OTHER -> lang

\* the number of project labels the panel has
ProjectLabels == 12

\* a first row that looks at the uptime before the indexing flag
Row1_initializing_first(total_files, total_types, total_members, is_indexing, uptime_s) ==
    IF ValueOf(total_files) = 0 /\ ValueOf(uptime_s) < 120
    THEN "Service initializing... (uptime: " \o _fmt_uptime(ValueOf(uptime_s)) \o ")"
    ELSE IF ValueOf(total_files) = 0 /\ truth(is_indexing)
         THEN "Initial indexing in progress..."
         ELSE "Files: " \o _fmt_count(ValueOf(total_files))
              \o "    Types: " \o _fmt_count(ValueOf(total_types))
              \o "    Members: " \o _fmt_count(ValueOf(total_members))

\* the text of self._row1
Row1(total_files, total_types, total_members, is_indexing, uptime_s) ==
    LET is_initializing == ValueOf(total_files) = 0 /\ ValueOf(uptime_s) < 120
    IN IF ValueOf(total_files) = 0 /\ truth(is_indexing)
       THEN "Initial indexing in progress..."
       ELSE IF is_initializing
            THEN "Service initializing... (uptime: " \o _fmt_uptime(ValueOf(uptime_s)) \o ")"
            ELSE "Files: " \o _fmt_count(ValueOf(total_files))
                 \o "    Types: " \o _fmt_count(ValueOf(total_types))
                 \o "    Members: " \o _fmt_count(ValueOf(total_members))

\* lang_parts: one part for each language of byLanguage but "content"
RECURSIVE LangParts(_)
LangParts(items) ==
    IF items = <<>> THEN <<>>
    ELSE LET lang == items[1][1]
             lang_data == items[1][2]
             files == get(lang_data, "files", Num(0))
         IN (IF lang = "content"
             THEN <<>>
             ELSE <<_LANG_LABELS_get(lang) \o ": " \o _fmt_count(ValueOf(files))>>)
            \o LangParts(Tail(items))

\* the entries made of stats.projects, one for each value that is a dict
RECURSIVE StatsProjects(_)
StatsProjects(items) ==
    IF items = <<>> THEN <<>>
    ELSE LET name == items[1][1]
             proj_data == items[1][2]
         IN (IF isinstance(proj_data, "dict")
             THEN <<Dict(<<Pair("name", Str(name)),
                           Pair("language", get(proj_data, "language", Str(""))),
                           Pair("files", get(proj_data, "files", Num(0))),
                           Pair("status", Str("indexed"))>>)>>
             ELSE <<>>)
            \o StatsProjects(Tail(items))

\* the entries made of stats.byLanguage, one for each value that is a dict
RECURSIVE LanguageProjects(_)
LanguageProjects(items) ==
    IF items = <<>> THEN <<>>
    ELSE LET lang == items[1][1]
             lang_data == items[1][2]
         IN (IF isinstance(lang_data, "dict")
             THEN <<Dict(<<Pair("name", Str(_LANG_LABELS_get(lang))),
                           Pair("language", Str(lang)),
                           Pair("files", get(lang_data, "files", Num(0))),
                           Pair("status", Str("indexed"))>>)>>
             ELSE <<>>)
            \o LanguageProjects(Tail(items))

\* an extraction that shows the entries of every source
_extract_projects_merged(status, summary, stats) ==
    (IF truth(status) /\ isinstance(get(status, "projects", None), "list")
     THEN ValueOf(get(status, "projects", None)) ELSE <<>>)
    \o (IF isinstance(get(stats, "projects", Dict(<<>>)), "dict")
        THEN StatsProjects(ValueOf(get(stats, "projects", Dict(<<>>)))) ELSE <<>>)
    \o LanguageProjects(ValueOf(get(stats, "byLanguage", Dict(<<>>))))

\* IndexStatsPanel._extract_projects: the list it returns
_extract_projects(status, summary, stats) ==
    LET items == get(status, "projects", None)
        stats_projects == get(stats, "projects", Dict(<<>>))
        by_lang == get(stats, "byLanguage", Dict(<<>>))
    IN IF /\ truth(status)
          /\ isinstance(items, "list")
          /\ truth(items)
          /\ isinstance(ValueOf(items)[1], "dict")
       THEN ValueOf(items)
       ELSE IF isinstance(stats_projects, "dict") /\ truth(stats_projects)
            THEN StatsProjects(ValueOf(stats_projects))
            ELSE LanguageProjects(ValueOf(by_lang))

\* what a project label shows of its entry
ProjectLabel(proj) ==
    LET language == get(proj, "language", Str(""))
    IN [name |-> ValueOf(get(proj, "name", Str("?"))),
        lang |-> _LANG_LABELS_get(ValueOf(language)),
        files |-> _fmt_count(ValueOf(get(proj, "files", Num(0)))),
        status |-> ValueOf(get(proj, "status", Str("unknown")))]

\* IndexStatsPanel._on_result: the texts of the three rows, the list of
\* project entries, and the labels that are visible after it
_on_result_rows(data) ==
    LET health == get(data, "health", Dict(<<>>))
        stats == get(data, "stats", Dict(<<>>))
        status == get(data, "status", None)
        summary == get(data, "summary", None)
        total_files == get(stats, "totalFiles", Num(0))
        total_types == get(stats, "totalTypes", Num(0))
        total_members == get(stats, "totalMembers", Num(0))
        zoekt == get(health, "zoekt", Dict(<<>>))
        is_indexing == get(zoekt, "indexing", Bool(FALSE))
        uptime_s == get(health, "uptimeSeconds", Num(0))
        is_initializing == ValueOf(total_files) = 0 /\ ValueOf(uptime_s) < 120
        by_lang == get(stats, "byLanguage", Dict(<<>>))
        lang_parts == LangParts(ValueOf(by_lang))
        zoekt_available == get(zoekt, "available", Bool(FALSE))
        mem == get(health, "memoryMB", Dict(<<>>))
        mem_mb == get(mem, "heapUsed", Num(0))
        projects == _extract_projects(status, summary, stats)
        shown == IF Len(projects) < ProjectLabels THEN Len(projects) ELSE ProjectLabels
    IN [row1 |-> Row1(total_files, total_types, total_members, is_indexing, uptime_s),
        row2 |-> IF lang_parts # <<>> THEN join("    ", lang_parts)
                 ELSE IF truth(is_indexing) \/ is_initializing
                      THEN "Scanning project files..."
                      ELSE "No indexed files",
        row3 |-> [zoekt_text |-> IF truth(is_indexing) THEN "Indexing..."
                                 ELSE IF truth(zoekt_available) THEN "Ready"
                                 ELSE "Unavailable",
                  mem_mb |-> ValueOf(mem_mb),
                  uptime |-> _fmt_uptime(ValueOf(uptime_s))],
        projects |-> projects,
        labels |-> [i \in 1..shown |-> ProjectLabel(projects[i])]]

\* ---- _on_result applied to snapshots ----
\* the items of a body: what is there of a key's value, <<>> or <<value>>
Opt(key, choice) == IF choice = <<>> THEN <<>> ELSE <<Pair(key, choice[1])>>

\* bodies of GET /health
HealthBodies ==
    {Dict(Opt("uptimeSeconds", uptime) \o Opt("indexing", indexing)
          \o Opt("zoekt", zoekt) \o Opt("memoryMB", memory)) :
        uptime \in {<<>>, <<Num(5)>>, <<Num(300)>>},
        indexing \in {<<>>, <<Bool(TRUE)>>},
        zoekt \in {<<>>,
                   <<Dict(<<Pair("indexing", Bool(TRUE))>>)>>,
                   <<Dict(<<Pair("available", Bool(TRUE)), Pair("indexing", Bool(FALSE))>>)>>,
                   <<Dict(<<Pair("available", Bool(TRUE))>>)>>},
        memory \in {<<>>, <<Dict(<<Pair("heapUsed", Num(212))>>)>>}}

\* bodies of GET /stats, and None for a fetch that failed
StatsBodies ==
    {Dict(Opt("totalFiles", files) \o Opt("projects", projects)
          \o Opt("byLanguage", by_language)) :
        files \in {<<>>, <<Num(0)>>, <<Num(1200)>>},
        projects \in {<<>>,
                      <<Dict(<<>>)>>,
                      <<Dict(<<Pair("Engine", Dict(<<Pair("files", Num(1000)),
                                                     Pair("language", Str("cpp"))>>))>>)>>,
                      <<Dict(<<Pair("Engine", Num(5))>>)>>},
        by_language \in {<<>>,
                         <<Dict(<<>>)>>,
                         <<Dict(<<Pair("cpp", Dict(<<Pair("files", Num(1000))>>)),
                                  Pair("content", Dict(<<Pair("files", Num(7))>>)),
                                  Pair("angelscript", Dict(<<Pair("files", Num(200))>>))>>)>>}}
    \cup {None}

\* bodies of GET /status, and None for a fetch that failed
StatusBodies ==
    {None,
     Dict(<<>>),
     Dict(<<Pair("projects", List(<<>>))>>),
     Dict(<<Pair("projects", List(<<Dict(<<Pair("name", Str("Game")),
                                           Pair("language", Str("angelscript")),
                                           Pair("files", Num(10)),
                                           Pair("status", Str("indexing"))>>)>>))>>),
     Dict(<<Pair("projects", List(<<Str("Game")>>))>>),
     Dict(<<Pair("projects", Dict(<<Pair("Game", Dict(<<Pair("files", Num(10))>>))>>))>>)}

\* bodies of GET /summary, and None for a fetch that failed
SummaryBodies == {None, Dict(<<>>)}

\* the dict IndexStatsWorker.run emits with result_ready
ResultData(health, stats, status, summary) ==
    Dict(<<Pair("health", health),
           Pair("stats", IF truth(stats) THEN stats ELSE Dict(<<>>)),
           Pair("status", status),
           Pair("summary", summary)>>)

\* _on_result is about to be applied to the dict of a run
InitResult ==
    /\ keep_order = FALSE
    /\ InitGui
    /\ \E health \in HealthBodies, stats \in StatsBodies,
          status \in StatusBodies, summary \in SummaryBodies :
         call = [NoCall EXCEPT !.fn = "_on_result",
                               !.arg = ResultData(health, stats, status, summary)]

\* self._on_result(data)
OnResult ==
    /\ call.fn = "_on_result"
    /\ ~call.returned
    /\ call' = [call EXCEPT !.returned = TRUE, !.ret = _on_result_rows(call.arg)]
    /\ UNCHANGED <<row, threads, events, panel, timers, issued, last_op,
                   last_stale, keep_order, worker>>

NextResult ==
    \/ OnResult

ResultSpec == InitResult /\ [][NextResult]_vars

\* ---- vocabulary of the properties ----
\* the threads of a worker class whose run() has not returned
ThreadsOf(ths, kind) == {t \in ths : t.kind = kind}

\* those of them that have not emitted their signal yet
PendingOf(ths, kind) == {t \in ths : t.kind = kind /\ t.pc = "run"}

\* the reachability a status-check result e reports for service s
Reachable(e, s) == IF s = "index" THEN e.r1 = "true" ELSE e.r2 = "true"

\* the step applies a status-check result (runs _on_status)
AppliesStatus == last_op'.op = "status"

\* the step runs a start command for service s: "Start All", or a click on the
\* row's button while it reads "Start"
StartCommand(s) ==
    \/ last_op'.op = "start_all"
    \/ last_op'.op = "click" /\ last_op'.svc = s /\ _apply_state(row[s]).text = "Start"

\* the step runs a stop command for service s: "Stop All", or a click on the
\* row's button while it reads "Stop"
StopCommand(s) ==
    \/ last_op'.op = "stop_all"
    \/ last_op'.op = "click" /\ last_op'.svc = s /\ _apply_state(row[s]).text = "Stop"

StartCmd(s) == IF s = "index" THEN "start_index_service" ELSE "start_watcher"

StopCmd(s) == IF s = "index" THEN "stop_index_service" ELSE "stop_watcher"

\* how many times a command was issued
Count(seq, cmd) == Cardinality({i \in 1..Len(seq) : seq[i] = cmd})

\* ---- C1 ----
\* C1: in every reachable state at most one IndexStatsWorker and at most one
\* LogWorker is in flight (its run() has not returned).
C1_SingleFlight ==
    /\ Cardinality(ThreadsOf(threads, STATS)) <= 1
    /\ Cardinality(ThreadsOf(threads, LOG)) <= 1

\* a snapshot poll, a log-status poll and a status check are in flight together
C1_Witness ==
    /\ PendingOf(threads, STATS) # {}
    /\ PendingOf(threads, LOG) # {}
    /\ PendingOf(threads, CHECK) # {}

\* ---- C2 ----
\* the worker class whose poll the step asks for by calling _refresh, refresh
\* or refresh_startup
AsksFor(kind) ==
    CASE kind = CHECK -> last_op'.op \in {"tick", "single_shot"}
      [] kind = STATS -> AppliesStatus /\ Reachable(Head(events), "index")
      [] kind = LOG -> last_op'.op = "failed"

\* the worker class whose result the step applies
AppliesResultOf(kind) ==
    CASE kind = CHECK -> last_op'.op = "status"
      [] kind = STATS -> last_op'.op \in {"result", "failed"}
      [] kind = LOG -> last_op'.op = "log"

\* C2: a tick that arrives while a poll of its kind is outstanding is dropped
\* (no worker of that kind is started, the running one is left alone), and
\* neither the completion of a poll nor the delivery of its result starts a
\* poll of that kind to make up for a dropped tick.
C2_TickDropped ==
    [][\A kind \in Kinds :
          /\ (AsksFor(kind) /\ ThreadsOf(threads, kind) # {})
                => /\ ThreadsOf(threads', kind) = ThreadsOf(threads, kind)
                   /\ kind \notin last_op'.started
          /\ (last_op'.op = "-" \/ AppliesResultOf(kind))
                => PendingOf(threads', kind) \subseteq PendingOf(threads, kind)]_vars

\* a timer tick has just been dropped while the status check had not completed
C2_Witness ==
    /\ last_op.op = "tick"
    /\ last_op.started = {}
    /\ PendingOf(threads, CHECK) # {}

\* ---- C3 ----
\* C3: a status result with reachable=true applied while the service is
\* Stopping leaves the service Stopping.
C3_ReachableIgnoredWhileStopping ==
    [][\A s \in Svc :
          (AppliesStatus /\ row[s] = STOPPING /\ Reachable(Head(events), s))
             => row'[s] = STOPPING]_vars

\* ---- C4 ----
\* a status result reporting service s reachable is waiting to be applied
SeenUp(s) ==
    \E i \in 1..Len(events) : events[i].kind = "status" /\ Reachable(events[i], s)

\* C4: a service that is Stopping, and that every status check from then on
\* finds unreachable, eventually becomes Stopped.
C4_StoppingEndsStopped ==
    \A s \in Svc :
        (row[s] = STOPPING /\ ~SeenUp(s)) ~> (row[s] = STOPPED \/ SeenUp(s))

\* ---- C5 ----
\* C5: no step applies the result of a poll after the result of a poll that
\* started later has been applied.
C5_NoStaleResultApplied == ~last_stale

\* ---- C6 ----
\* C6: a start command sets a Stopped service to Starting and issues its start
\* command exactly once; for a service in any other state it changes nothing
\* and issues no start command.
C6_StartOnlyFromStopped ==
    [][\A s \in Svc :
          StartCommand(s) =>
             IF row[s] = STOPPED
             THEN row'[s] = STARTING /\ Count(issued', StartCmd(s)) = 1
             ELSE row'[s] = row[s] /\ Count(issued', StartCmd(s)) = 0]_vars

\* "Start All" has just run with the index service Running and the watcher
\* Stopped: only the watcher was started
C6_Witness ==
    /\ last_op.op = "start_all"
    /\ row["index"] = RUNNING
    /\ row["watcher"] = STARTING
    /\ issued = <<"start_watcher">>

\* ---- C7 ----
\* C7: a stop command sets a Running service to Stopping and issues its stop
\* command; for a service in any other state it changes nothing and issues no
\* stop command.
C7_StopOnlyFromRunning ==
    [][\A s \in Svc :
          StopCommand(s) =>
             IF row[s] = RUNNING
             THEN row'[s] = STOPPING /\ Count(issued', StopCmd(s)) = 1
             ELSE row'[s] = row[s] /\ Count(issued', StopCmd(s)) = 0]_vars

\* "Stop All" has just run with the index service Stopped and the watcher
\* Running: only the watcher was stopped
C7_Witness ==
    /\ last_op.op = "stop_all"
    /\ row["index"] = STOPPED
    /\ row["watcher"] = STOPPING
    /\ issued = <<"stop_watcher">>

\* ---- C8 ----
\* C8: a row enters Starting only in a step that runs a start command for it
\* and Stopping only in a step that runs a stop command for it; a step that
\* applies a poll result changes a row to Running or Stopped only.
C8_PollsWriteRunningOrStopped ==
    [][\A s \in Svc :
          row'[s] # row[s] =>
             /\ row'[s] = STARTING => StartCommand(s)
             /\ row'[s] = STOPPING => StopCommand(s)
             /\ last_op'.op \in {"status", "result", "failed", "log"}
                   => row'[s] \in {RUNNING, STOPPED}]_vars

\* a status result has just been applied to two Starting services: the index
\* service became Running, the watcher stays as the command left it
C8_Witness ==
    /\ last_op.op = "status"
    /\ last_op.was = [s \in Svc |-> STARTING]
    /\ row["index"] = RUNNING
    /\ row["watcher"] = STARTING

\* ---- C9 ----
\* C9: a status result with reachable=true applied while the service is
\* Stopped, Starting or Running leaves it Running.
C9_ReachableMeansRunning ==
    [][\A s \in Svc :
          (AppliesStatus /\ row[s] \in {STOPPED, STARTING, RUNNING}
                         /\ Reachable(Head(events), s))
             => row'[s] = RUNNING]_vars

\* a status result has just moved the index service from Starting and the
\* watcher from Stopped to Running
C9_Witness ==
    /\ last_op.op = "status"
    /\ last_op.was["index"] = STARTING
    /\ last_op.was["watcher"] = STOPPED
    /\ row = [s \in Svc |-> RUNNING]

\* ---- C10 ----
\* C10: a status result with reachable=false applied while the service is
\* Running, or Stopped as at start-up, leaves it Stopped.
C10_UnreachableMeansStopped ==
    [][\A s \in Svc :
          (AppliesStatus /\ row[s] \in {RUNNING, STOPPED}
                         /\ ~Reachable(Head(events), s))
             => row'[s] = STOPPED]_vars

\* a status result has just moved both services from Running to Stopped
C10_Witness ==
    /\ last_op.op = "status"
    /\ last_op.was = [s \in Svc |-> RUNNING]
    /\ row = [s \in Svc |-> STOPPED]

\* ---- C11 ----
\* C11: a status result with reachable=false applied while the service is
\* Starting leaves the service Starting.
C11_UnreachableKeepsStarting ==
    [][\A s \in Svc :
          (AppliesStatus /\ row[s] = STARTING /\ ~Reachable(Head(events), s))
             => row'[s] = STARTING]_vars

\* a status result has just been applied to two Starting services and has left
\* both of them Starting
C11_Witness ==
    /\ last_op.op = "status"
    /\ last_op.was = [s \in Svc |-> STARTING]
    /\ row = [s \in Svc |-> STARTING]

\* ---- C12 ----
\* C12: a status result with reachable=false applied while the index service
\* is Starting starts a log-status poll (LogWorker), unless one is in flight.
C12_UnreachableStartingPollsLog ==
    [][(/\ AppliesStatus
        /\ row["index"] = STARTING
        /\ ~Reachable(Head(events), "index")
        /\ ThreadsOf(threads, LOG) = {})
          => LOG \in last_op'.started]_vars

\* ---- C13 ----
\* C13: a snapshot (result_ready) is emitted only if the health fetch
\* succeeded, and a run() whose health fetch succeeded ends with a snapshot
\* whatever the stats, status and summary fetches do.
C13_SnapshotIffHealth ==
    /\ worker.sig.kind = "result" => worker.would["health"] # "fail"
    /\ worker.pc = "done" =>
          (worker.sig.kind = "result" <=> worker.would["health"] # "fail")

\* a run() has ended with a snapshot although stats, status and summary failed
C13_Witness ==
    /\ worker.pc = "done"
    /\ worker.sig.kind = "result"
    /\ \A ep \in Endpoints \ {"health"} : worker.would[ep] = "fail"

\* ---- C14 ----
\* C14: stats, status and summary are requested only after the health fetch
\* has returned; when the health fetch fails none of them is requested and the
\* poll ends with fetch_failed, which carries no stats, status or summary,
\* whatever those endpoints would have answered.
C14_HealthFirstAndShortCircuit ==
    /\ \A i \in 1..Len(worker.fetched) :
          worker.fetched[i] # "health" =>
             /\ i > 1
             /\ worker.fetched[1] = "health"
             /\ worker.got["health"] \notin {"-", "None"}
    /\ (worker.would["health"] = "fail" /\ worker.pc \in {"except", "done"}) =>
          /\ worker.fetched = <<"health">>
          /\ \A ep \in Endpoints : worker.got[ep] = "-"
          /\ worker.pc = "done" => worker.sig = Failed

\* a run() has ended with fetch_failed and one request, although stats, status
\* and summary would have answered
C14_Witness ==
    /\ worker.pc = "done"
    /\ worker.would["health"] = "fail"
    /\ \A ep \in Endpoints \ {"health"} : worker.would[ep] = "ok"
    /\ worker.fetched = <<"health">>
    /\ worker.sig = Failed

\* ---- C15 ----
\* the value a snapshot holds for a best-effort endpoint whose fetch failed
EmptyValue(ep) == IF ep = "stats" THEN "{}" ELSE "None"

\* the snapshot's value for an endpoint
Field(sig, ep) ==
    CASE ep = "health" -> sig.r1
      [] ep = "stats" -> sig.r2
      [] ep = "status" -> sig.r3
      [] ep = "summary" -> sig.r4

\* C15: when the health fetch succeeds, stats, status and summary are each
\* requested whatever the others do, the snapshot is emitted, and each of its
\* fields holds what its endpoint answered, or the empty value if its own
\* fetch failed.
C15_BestEffortFieldsIndependent ==
    (worker.pc = "done" /\ worker.would["health"] # "fail") =>
        /\ worker.fetched = <<"health", "stats", "status", "summary">>
        /\ worker.sig.kind = "result"
        /\ \A ep \in Endpoints :
              Field(worker.sig, ep) =
                 IF worker.would[ep] = "fail" THEN EmptyValue(ep) ELSE worker.would[ep]

\* a snapshot has been emitted whose status fetch failed while stats and
\* summary answered
C15_Witness ==
    /\ worker.pc = "done"
    /\ worker.would = [ep \in Endpoints |-> IF ep = "status" THEN "fail" ELSE "ok"]
    /\ worker.sig.kind = "result"
    /\ worker.sig.r3 = "None"
    /\ worker.sig.r2 = "ok"
    /\ worker.sig.r4 = "ok"

\* ---- C16 ----
\* C16: a run() whose health fetch failed ends with the fetch_failed signal,
\* and the step that handles fetch_failed starts a LogWorker unless one is in
\* flight, in which case it starts nothing.
C16_FailureStartsLogFallback ==
    [][/\ (worker'.pc = "done" /\ worker'.would["health"] = "fail")
             => worker'.sig = Failed
       /\ last_op'.op = "failed" =>
             IF ThreadsOf(threads, LOG) = {}
             THEN /\ last_op'.started = {LOG}
                  /\ Cardinality(PendingOf(threads', LOG)) = 1
             ELSE /\ last_op'.started = {}
                  /\ threads' = threads]_vars

\* fetch_failed of a run() whose health fetch failed has just started a LogWorker
C16_Witness ==
    /\ last_op.op = "failed"
    /\ last_op.started = {LOG}
    /\ worker.pc = "done"
    /\ worker.would["health"] = "fail"

\* ---- vocabulary of the classifier's properties ----
\* _parse_log_status has been applied to call.arg and has returned call.ret
Parsed == call.fn = "_parse_log_status" /\ call.returned

\* the lines the classifier considers: the last 10 non-empty, trimmed lines
Considered(log_text) == LastLines(StripNonEmpty(splitlines(strip(log_text))))

\* the last index in a set of indices
Latest(S) == CHOOSE i \in S : \A j \in S : j <= i

ErrorWords == {"error", "fatal", "enoent"}

ReadyWords == {"listening", "server started", "ready"}

InErrorTier(line) == \E word \in ErrorWords : Contains(lower(line), word)

InReadyTier(line) == \E word \in ReadyWords : Contains(lower(line), word)

\* the line has a current/total match whose total is greater than 0
HasPair(line) ==
    LET m == _RE_PROGRESS_search(line)
    IN m # <<>> /\ int(m[2]) > 0

\* the line matches one of the three patterns of the progress tier
InProgressTier(line) ==
    HasPair(line) \/ _RE_FILES_INDEXED_search(line) \/ _RE_INDEXING_search(line)

\* the indices of the considered lines that satisfy a test
ErrorLines(ls) == {i \in 1..Len(ls) : InErrorTier(ls[i])}

ReadyLines(ls) == {i \in 1..Len(ls) : InReadyTier(ls[i])}

ProgressLines(ls) == {i \in 1..Len(ls) : InProgressTier(ls[i])}

\* the result carries a progress pair
HasProgress(ret) == "progress" \in DOMAIN ret \/ "total" \in DOMAIN ret

\* ---- C17 ----
\* C17: if some considered line contains error, fatal or enoent (in any case),
\* the result is phase error with the detail taken from the most recent such
\* line, whatever ready, listening or progress lines stand before or after it.
C17_ErrorTierWins ==
    Parsed =>
        LET ls == Considered(call.arg)
        IN ErrorLines(ls) # {} =>
              call.ret = [phase |-> "error",
                          detail |-> Truncate(ls[Latest(ErrorLines(ls))])]

\* an error line followed by a ready line has been classified as error
C17_Witness ==
    /\ Parsed
    /\ call.arg = "ERROR: ENOENT no such file\nListening on port 3847\n"
    /\ call.ret.phase = "error"
    /\ call.ret.detail = "ERROR: ENOENT no such file"

\* ---- C18 ----
\* the sample has at most 10 non-empty lines, one of them is
\* "42/100 files indexed", and none is in the error or the ready tier
C18_Sample(log_text) ==
    LET ls == StripNonEmpty(splitlines(strip(log_text)))
    IN /\ Len(ls) <= TailLines
       /\ \E i \in 1..Len(ls) : ls[i] = "42/100 files indexed"
       /\ ErrorLines(ls) = {}
       /\ ReadyLines(ls) = {}

\* the result is phase indexing with progress 42 of 100
C18_Result(ret) ==
    /\ ret.phase = "indexing"
    /\ HasProgress(ret)
    /\ ret.progress = 42
    /\ ret.total = 100

\* C18 as stated: every such sample is classified as indexing with progress
\* 42 of 100, whatever other lines stand before or after that line.
C18_AnyPosition == (Parsed /\ C18_Sample(call.arg)) => C18_Result(call.ret)

\* C18, amended: every such sample in which no line more recent than
\* "42/100 files indexed" matches a pattern of the progress tier is classified
\* as indexing with progress 42 of 100.
C18_MostRecentProgressLine ==
    (Parsed /\ C18_Sample(call.arg)) =>
        LET ls == Considered(call.arg)
            at == Latest({i \in 1..Len(ls) : ls[i] = "42/100 files indexed"})
        IN (\A j \in ProgressLines(ls) : j <= at) => C18_Result(call.ret)

\* "42/100 files indexed" followed by a line of no tier has been classified
\* with progress 42 of 100
C18_Witness ==
    /\ Parsed
    /\ call.arg = "42/100 files indexed\nStarting server...\n"
    /\ C18_Result(call.ret)

\* ---- C19 ----
\* C19: if no considered line is in the error tier and some considered line
\* contains listening, server started or ready, the result is phase ready with
\* the detail taken from the most recent such line, even when a progress or
\* indexing line is more recent.
C19_ReadyTierWins ==
    Parsed =>
        LET ls == Considered(call.arg)
        IN (ErrorLines(ls) = {} /\ ReadyLines(ls) # {}) =>
              call.ret = [phase |-> "ready",
                          detail |-> Truncate(ls[Latest(ReadyLines(ls))])]

\* a ready line followed by a progress line has been classified as ready
C19_Witness ==
    /\ Parsed
    /\ call.arg = "Listening on port 3847\n42/100 files indexed\n"
    /\ call.ret.phase = "ready"
    /\ call.ret.detail = "Listening on port 3847"

C21_FallbackShowsLastLine ==
    Parsed =>
        LET ls == Considered(call.arg)
        IN (ls # <<>> /\ ErrorLines(ls) = {} /\ ReadyLines(ls) = {}
                      /\ ProgressLines(ls) = {}) =>
              /\ call.ret.phase = "starting"
              /\ call.ret.detail =
                    SubSeq(ls[Len(ls)], 1, IF Len(ls[Len(ls)]) < 120
                                           THEN Len(ls[Len(ls)]) ELSE 120)
              /\ ~HasProgress(call.ret)

\* two lines of no tier have been classified as starting, with the second one
\* as the detail
C21_Witness ==
    /\ Parsed
    /\ call.arg = "Starting server...\nretry 3/0\n"
    /\ call.ret = [phase |-> "starting", detail |-> "retry 3/0"]

\* ---- C22 ----
\* C22: whatever the input and the phase returned, the detail is at most 120
\* characters long.
C22_DetailAtMost120 == Parsed => Len(call.ret.detail) <= 120

\* a ready line of more than 120 characters has been classified, and the
\* detail is its first 120 characters
C22_Witness ==
    /\ Parsed
    /\ call.arg = "Listening on port 3847" \o LongTail \o "\n"
    /\ call.ret.phase = "ready"
    /\ Len(call.ret.detail) = 120
    /\ call.ret.detail = SubSeq(call.arg, 1, 120)

\* ---- C24 ----
\* _parse_log_status has been applied to call.arg: it has returned or raised
Applied == call.fn = "_parse_log_status" /\ call.ret # NoCall.ret

\* C24: every log text is classified, without a failure, into exactly one of
\* the four phases; a text that is empty or holds whitespace only gives phase
\* starting with the detail "Waiting for output...".
C24_TotalAndWaiting ==
    Applied =>
        /\ call.returned
        /\ call.ret.phase \in {"starting", "indexing", "ready", "error"}
        /\ (\A i \in 1..Len(call.arg) : Char(call.arg, i) \in Whitespace) =>
              call.ret = [phase |-> "starting", detail |-> "Waiting for output..."]

\* ---- vocabulary of the properties of _on_result ----
\* _on_result has been applied to call.arg and the panel shows call.ret
Shown == call.fn = "_on_result" /\ call.returned

HealthOf(data) == get(data, "health", None)

StatsOf(data) == get(data, "stats", None)

StatusOf(data) == get(data, "status", None)

\* the value of status.projects, or None
StatusProjects(data) ==
    IF TypeOf(StatusOf(data)) = "dict" THEN get(StatusOf(data), "projects", None) ELSE None

\* the members of a sequence
Members(seq) == {seq[i] : i \in 1..Len(seq)}

\* ---- C25 ----
\* health body {uptimeSeconds: 5, indexing: true}
C25_FlatHealth == Dict(<<Pair("uptimeSeconds", Num(5)), Pair("indexing", Bool(TRUE))>>)

\* health body {uptimeSeconds: 5, zoekt: {indexing: true}}
C25_NestedHealth ==
    Dict(<<Pair("uptimeSeconds", Num(5)),
           Pair("zoekt", Dict(<<Pair("indexing", Bool(TRUE))>>))>>)

\* stats body {totalFiles: 0}
C25_NoFiles == Dict(<<Pair("totalFiles", Num(0))>>)

\* the panel shows "initial indexing in progress" and no project
C25_InitialIndexing ==
    /\ call.ret.row1 = "Initial indexing in progress..."
    /\ call.ret.projects = <<>>
    /\ call.ret.labels = <<>>

\* C25 as stated: for a snapshot whose health body is
\* {uptimeSeconds: 5, indexing: true} and whose stats body is {totalFiles: 0},
\* the panel shows "initial indexing in progress" and no project.
C25_FlatIndexingFlag ==
    (/\ Shown
     /\ HealthOf(call.arg) = C25_FlatHealth
     /\ StatsOf(call.arg) = C25_NoFiles) => C25_InitialIndexing

\* C25, amended: for a snapshot whose health body is
\* {uptimeSeconds: 5, zoekt: {indexing: true}}, whose stats body is
\* {totalFiles: 0} and whose status body holds no non-empty list of projects,
\* the panel shows "initial indexing in progress" (not "service initializing",
\* not the counts) and no project.
C25_NestedIndexingFlag ==
    (/\ Shown
     /\ HealthOf(call.arg) = C25_NestedHealth
     /\ StatsOf(call.arg) = C25_NoFiles
     /\ ~(TypeOf(StatusProjects(call.arg)) = "list" /\ ValueOf(StatusProjects(call.arg)) # <<>>))
        => C25_InitialIndexing

\* the snapshot with the nested flag, no files and no status has been shown as
\* initial indexing, with no project
C25_Witness ==
    /\ Shown
    /\ HealthOf(call.arg) = C25_NestedHealth
    /\ StatsOf(call.arg) = C25_NoFiles
    /\ StatusOf(call.arg) = None
    /\ call.ret.row1 = "Initial indexing in progress..."
    /\ call.ret.row2 = "Scanning project files..."
    /\ call.ret.projects = <<>>

\* ---- C26 ----
\* the value of stats.projects, or None
StatsProjectsOf(data) == get(StatsOf(data), "projects", None)

\* the value of stats.byLanguage, or None
ByLanguageOf(data) == get(StatsOf(data), "byLanguage", None)

\* the entry is an element of status.projects
FromStatus(entry, data) ==
    /\ TypeOf(StatusProjects(data)) = "list"
    /\ entry \in Members(ValueOf(StatusProjects(data)))

\* the entry is made of an item of a dict of the stats, with the name given
FromItem(entry, item, name) ==
    /\ TypeOf(item[2]) = "dict"
    /\ get(entry, "name", None) = Str(name)
    /\ get(entry, "files", None) = get(item[2], "files", Num(0))
    /\ get(entry, "status", None) = Str("indexed")

\* the entry is made of an item of stats.projects
FromStatsProjects(entry, data) ==
    /\ TypeOf(StatsProjectsOf(data)) = "dict"
    /\ \E item \in Members(ValueOf(StatsProjectsOf(data))) :
         /\ FromItem(entry, item, item[1])
         /\ get(entry, "language", None) = get(item[2], "language", Str(""))

\* the entry is made of an item of stats.byLanguage
FromByLanguage(entry, data) ==
    /\ TypeOf(ByLanguageOf(data)) = "dict"
    /\ \E item \in Members(ValueOf(ByLanguageOf(data))) :
         /\ FromItem(entry, item, _LANG_LABELS_get(item[1]))
         /\ get(entry, "language", None) = Str(item[1])

\* the result has entries, and all of them are of the source
UsesStatus ==
    /\ call.ret.projects # <<>>
    /\ \A entry \in Members(call.ret.projects) : FromStatus(entry, call.arg)

UsesStatsProjects ==
    /\ call.ret.projects # <<>>
    /\ \A entry \in Members(call.ret.projects) : FromStatsProjects(entry, call.arg)

UsesByLanguage ==
    /\ call.ret.projects # <<>>
    /\ \A entry \in Members(call.ret.projects) : FromByLanguage(entry, call.arg)

\* the entries of the result are of one source
OneSource ==
    \/ call.ret.projects = <<>>
    \/ UsesStatus /\ ~UsesStatsProjects /\ ~UsesByLanguage
    \/ ~UsesStatus /\ UsesStatsProjects /\ ~UsesByLanguage
    \/ ~UsesStatus /\ ~UsesStatsProjects /\ UsesByLanguage

\* the snapshot has the key of the source
StatusProjectsPresent == StatusProjects(call.arg) # None

StatsProjectsPresent == StatsProjectsOf(call.arg) # None

\* the source has the form the extraction takes entries from: a non-empty list
\* whose first element is an object; a non-empty object
StatusProjectsUsable ==
    /\ TypeOf(StatusProjects(call.arg)) = "list"
    /\ ValueOf(StatusProjects(call.arg)) # <<>>
    /\ TypeOf(ValueOf(StatusProjects(call.arg))[1]) = "dict"

StatsProjectsUsable ==
    /\ TypeOf(StatsProjectsOf(call.arg)) = "dict"
    /\ ValueOf(StatsProjectsOf(call.arg)) # <<>>

\* C26 as stated: the entries come from one source, chosen by priority; a
\* lower-priority source is used only when every higher-priority source is
\* absent.
C26_AbsentOnly ==
    Shown =>
        /\ OneSource
        /\ UsesStatsProjects => ~StatusProjectsPresent
        /\ UsesByLanguage => ~StatusProjectsPresent /\ ~StatsProjectsPresent

\* C26, amended: the entries come from one source, chosen by priority; a
\* lower-priority source is used only when every higher-priority source is
\* absent, empty or not of the expected form, and a usable status.projects is
\* the result.
C26_UnusableOnly ==
    Shown =>
        /\ OneSource
        /\ StatusProjectsUsable => call.ret.projects = ValueOf(StatusProjects(call.arg))
        /\ UsesStatsProjects => ~StatusProjectsUsable
        /\ UsesByLanguage => ~StatusProjectsUsable /\ ~StatsProjectsUsable

\* with an empty status.projects, and both stats.projects and stats.byLanguage
\* filled, the entries are those of stats.projects
C26_Witness ==
    /\ Shown
    /\ StatusProjects(call.arg) = List(<<>>)
    /\ StatsProjectsUsable
    /\ TypeOf(ByLanguageOf(call.arg)) = "dict" /\ ValueOf(ByLanguageOf(call.arg)) # <<>>
    /\ UsesStatsProjects
    /\ Len(call.ret.projects) = 1

\* ---- C27 ----
\* the step runs a start or stop command
Command == last_op'.op \in {"click", "start_all", "stop_all"}

\* what _on_status makes of a result e for service s, given the state st of
\* the row when the result is applied
Interpreted(e, s, st) ==
    IF Reachable(e, s) THEN RUNNING
    ELSE IF st \in {STARTING, STOPPING} THEN st
    ELSE STOPPED

\* C27: a start or stop command neither cancels nor restarts a poll: the
\* threads in flight and the results waiting to be applied are the same after
\* the command step, and no worker is started by it; a status-check result is
\* applied to the rows' states of the moment it is applied.
C27_CommandLeavesPolls ==
    [][/\ Command =>
            /\ threads' = threads
            /\ events' = events
            /\ last_op'.started = {}
       /\ AppliesStatus =>
            \A s \in Svc : row'[s] = Interpreted(Head(events), s, row[s])]_vars

\* a stop command has just been run while one status check was in flight and
\* the result of another was waiting to be applied
C27_Witness ==
    /\ last_op.op \in {"click", "stop_all"}
    /\ row["index"] = STOPPING
    /\ PendingOf(threads, CHECK) # {}
    /\ events # <<>>
    /\ Head(events).kind = "status"

NonEmptyLines(log_text) == StripNonEmpty(splitlines(strip(log_text)))

\* the last 10 of a sequence of lines
Recent(lines) ==
    LET n == IF Len(lines) < 10 THEN Len(lines) ELSE 10
    IN [i \in 1..n |-> lines[Len(lines) - n + i]]

\* C30: the result depends on the last 10 non-empty, trimmed lines only: it
\* is the result for the text of those lines, so a line followed by 10 or more
\* non-empty lines has no influence on it.
C30_OnlyLastTenLines ==
    Parsed =>
        call.ret = _parse_log_status(JoinLines(Recent(NonEmptyLines(call.arg))))

\* an error line followed by a progress line and nine quiet lines has been
\* classified by the progress line
C30_Witness ==
    /\ Parsed
    /\ Len(NonEmptyLines(call.arg)) = 11
    /\ NonEmptyLines(call.arg)[1] = "ERROR: ENOENT no such file"
    /\ NonEmptyLines(call.arg)[2] = "42/100 files indexed"
    /\ call.ret.phase = "indexing"
    /\ call.ret.progress = 42

\* ---- C31 ----
\* C31: in every result of the classifier a progress pair is present only
\* when the phase is indexing; when present it is a whole pair, its total is
\* greater than 0 and its current value is not negative.
C31_PairOnlyWhenIndexing ==
    Parsed =>
        (HasProgress(call.ret) =>
            /\ call.ret.phase = "indexing"
            /\ {"progress", "total"} \subseteq DOMAIN call.ret
            /\ call.ret.total > 0
            /\ call.ret.progress >= 0)

\* "-3/5" has been classified as indexing with the pair 3 of 5
C31_Witness ==
    /\ Parsed
    /\ call.arg = "-3/5\n"
    /\ call.ret = [phase |-> "indexing", detail |-> "-3/5", progress |-> 3, total |-> 5]

\* ---- C32 ----
\* C32: with no considered line in the error or ready tier, the most recent
\* line that matches one of the three patterns of the progress tier decides
\* the result: the phase is indexing, the detail is that line, and the result
\* carries a progress pair exactly if that line has a current/total match of
\* total > 0, the pair being that match; a current/total line older than it
\* contributes nothing.
C32_MostRecentMatchDecides ==
    Parsed =>
        LET ls == Considered(call.arg)
        IN (ErrorLines(ls) = {} /\ ReadyLines(ls) = {} /\ ProgressLines(ls) # {}) =>
              LET line == ls[Latest(ProgressLines(ls))]
                  m == _RE_PROGRESS_search(line)
              IN /\ call.ret.phase = "indexing"
                 /\ call.ret.detail = Truncate(line)
                 /\ HasProgress(call.ret) <=> HasPair(line)
                 /\ HasPair(line) =>
                       /\ call.ret.progress = int(m[1])
                       /\ call.ret.total = int(m[2])

\* "42/100 files indexed" followed by "12 files indexed" has been classified
\* by the second line, without a progress pair
C32_Witness ==
    /\ Parsed
    /\ call.arg = "42/100 files indexed\n12 files indexed\n"
    /\ call.ret = [phase |-> "indexing", detail |-> "12 files indexed"]

\* ---- C33 ----
\* the other service
Other(s) == CHOOSE o \in Svc : o # s

\* the state _on_status leaves row s in when it is given the reachability
\* own_up for s and other_up for the other service while the other row is in
\* state other_st
StatusOutcome(s, own_up, other_up, other_st) ==
    LET g == [Gui EXCEPT !.row[Other(s)] = other_st]
    IN IF s = "index"
       THEN _on_status(g, own_up, other_up).row[s]
       ELSE _on_status(g, other_up, own_up).row[s]

\* C33: a click on the button of one service's row (its start or stop
\* command) leaves the state of the other service as it is, and the state a
\* status-check result leaves a service in is the same whatever the result
\* reports for the other service and whatever state the other service is in.
C33_ServicesIndependent ==
    [][\A s \in Svc :
          /\ (last_op'.op = "click" /\ last_op'.svc = Other(s)) => row'[s] = row[s]
          /\ AppliesStatus =>
                \A other_up \in BOOLEAN, other_st \in ServiceState :
                    row'[s] = StatusOutcome(s, Reachable(Head(events), s),
                                            other_up, other_st)]_vars

\* a status result that found the index service unreachable and the watcher
\* reachable has just been applied while the index service was Starting and
\* the watcher Stopped: the watcher alone is Running
C33_Witness ==
    /\ last_op.op = "status"
    /\ last_op.was["index"] = STARTING
    /\ last_op.was["watcher"] = STOPPED
    /\ row["index"] = STARTING
    /\ row["watcher"] = RUNNING

\* ---- C34 ----
\* C34: a snapshot poll is started only by a step that applies a status-check
\* result reporting the index service reachable; a log-status poll is started
\* only by a step that applies the failure of a snapshot poll, and never by
\* one that applies a successful snapshot.
C34_PollKindFollowsReachability ==
    [][/\ STATS \in last_op'.started =>
            (AppliesStatus /\ Reachable(Head(events), "index"))
       /\ LOG \in last_op'.started =>
            (last_op'.op = "failed" /\ Head(events).kind = "failed")
       /\ last_op'.op = "result" =>
            (LOG \notin last_op'.started
               /\ PendingOf(threads', LOG) \subseteq PendingOf(threads, LOG))]_vars

\* while the panel showed the snapshot of an earlier poll, the failure of a
\* later snapshot poll has just started a log-status poll
C34_Witness ==
    /\ last_op.op = "failed"
    /\ LOG \in last_op.started
    /\ PendingOf(threads, LOG) # {}
    /\ panel = "stats"

\* ---- C35 ----
\* the step posts a signal of a snapshot poll to the GUI thread
PostsOutcome ==
    /\ Len(events') = Len(events) + 1
    /\ events'[Len(events')].kind \in {"result", "failed"}

\* C35: a run() of the snapshot poll worker emits one signal, result_ready or
\* fetch_failed, and no second one: a step emits for it only if it has not
\* emitted yet, the emitting step ends the run, a run that has ended has
\* emitted exactly one of the two, and the thread returns only then, whatever
\* the four fetches do.
C35_ExactlyOneOutcome ==
    [][/\ PostsOutcome <=> worker'.sig # worker.sig
       /\ PostsOutcome =>
            /\ worker.sig = NoSignal
            /\ worker.pc \in {"emit", "except"}
            /\ worker'.pc = "done"
            /\ worker'.sig.kind = events'[Len(events')].kind
            /\ worker'.sig.kind = "failed" <=> worker.pc = "except"
       /\ worker.pc = "done" => worker' = worker
       /\ worker'.pc = "done" <=> worker'.sig.kind \in {"result", "failed"}
       /\ worker'.pc # "done" => worker'.sig = NoSignal
       /\ ThreadsOf(threads', STATS) = {} => worker'.pc = "done"]_vars

\* a run() all of whose fetches fail has returned after fetch_failed, its one
\* signal, has been applied
C35_Witness ==
    /\ worker.pc = "done"
    /\ \A ep \in Endpoints : worker.would[ep] = "fail"
    /\ worker.sig = Failed
    /\ ThreadsOf(threads, STATS) = {}
    /\ events = <<>>
    /\ last_op.op = "-"

\* ---- C36 ----
\* the signal a LogWorker emits for a process that is not there
NotAlive == [kind |-> "log", r1 |-> "false", r2 |-> "", r3 |-> "-", r4 |-> "-"]

\* C36: get_service_log is called only if check_wsl_screen has returned True;
\* when the probe finds no process, times out or cannot be run, the log is
\* not read, the signal carries False and the empty text whatever the log
\* file holds, _on_log_result does not call the classifier, and once the
\* signal has been applied the panel shows the offline state.
C36_DeadProcessMeansOffline ==
    /\ worker.read => (worker.screen = Exits(0, "") /\ worker.running)
    /\ worker.screen # Exits(0, "") =>
          /\ ~worker.read
          /\ \A i \in 1..Len(events) :
                events[i].kind = "log" =>
                   (events[i].r1 = NotAlive.r1 /\ events[i].r2 = NotAlive.r2)
          /\ worker.pc = "done" => worker.sig = NotAlive
          /\ call = NoCall
          /\ (worker.pc = "done" /\ events = <<>>) =>
                (last_op.op \in {"log", "-"} /\ panel = "offline")

\* while the panel showed a snapshot, a poll whose probe timed out has ended:
\* the log, which held text, was not read, the classifier was not called and
\* the panel is offline
C36_Witness ==
    /\ worker.pc = "done"
    /\ worker.screen = Raises("TimeoutExpired")
    /\ worker.tail = Exits(0, "Starting server...\n42/100 files indexed\n")
    /\ ~worker.read
    /\ worker.sig = NotAlive
    /\ events = <<>>
    /\ last_op.op = "log"
    /\ call = NoCall
    /\ panel = "offline"
    /\ row["index"] = RUNNING

\* ---- C37 ----
\* C37: a step taken while a service is Starting leaves it Starting or makes
\* it Running, whatever command or poll result the step handles, and it makes
\* it Running only by applying a status-check result that reports the service
\* reachable: as long as no such result is applied the service stays Starting.
C37_StartingLeavesOnlyToRunning ==
    [][\A s \in Svc :
          row[s] = STARTING =>
             /\ row'[s] \in {STARTING, RUNNING}
             /\ row'[s] = RUNNING =>
                   (AppliesStatus /\ Reachable(Head(events), s))
             /\ ~(AppliesStatus /\ Reachable(Head(events), s)) =>
                   row'[s] = STARTING]_vars

\* "Stop All" has just run while the index service was Starting and the
\* watcher Running: the watcher is Stopping, the index service still Starting
C37_Witness ==
    /\ last_op.op = "stop_all"
    /\ row["index"] = STARTING
    /\ row["watcher"] = STOPPING
    /\ issued = <<"stop_watcher">>
    /\ PendingOf(threads, CHECK) # {}

\* ---- C38 ----
\* the indices of the completions reported so far, in the order of the reports
RECURSIVE CompletedIndices(_)
CompletedIndices(emitted) ==
    IF emitted = <<>> THEN <<>>
    ELSE IF Head(emitted).sig = "step_completed"
         THEN <<Head(emitted).index>> \o CompletedIndices(Tail(emitted))
         ELSE CompletedIndices(Tail(emitted))

\* run() has ended: it has returned or an exception has left it
RunEnded == worker.ended \in {"returned", "raised"}

\* every step that was not skipped succeeded
EveryRunStepSucceeded ==
    \A index \in Steps : ~Skips(worker, index) => worker.would[index] = "ok"

\* C38: the completions are reported in index order, each once; when run()
\* ends, whether or not a step has failed, all eight steps have reported their
\* completion and the last signal is all_done, which reports success iff
\* every step that was not skipped succeeded.
C38_AllStepsReported ==
    /\ \A k \in 1..Len(CompletedIndices(worker.emitted)) :
          CompletedIndices(worker.emitted)[k] = k - 1
    /\ RunEnded =>
          /\ Len(CompletedIndices(worker.emitted)) = 8
          /\ worker.emitted # <<>>
          /\ worker.emitted[Len(worker.emitted)] = all_done(EveryRunStepSucceeded)

\* the same statement for the runs in which no exception leaves a step
C38_WhenEveryStepReturns ==
    (worker.ended # "raised") => C38_AllStepsReported

====
